---- MODULE Spec2Model ----
(***************************************************************************)
(* huntd: the analytics aggregation engine (src/huntd/analytics.py) over   *)
(* the records of src/huntd/git.py.                                        *)
(*                                                                         *)
(* Time is counted in whole hours.  Hour 0 is 00:00 of Monday 2024-12-30,  *)
(* the first day of ISO week 2025-W01; a calendar date is a day number     *)
(* (hours \div 24) and day d falls on weekday d % 7 with 0 = Monday, as    *)
(* date.weekday() counts.  A datetime is a record                          *)
(*     [wall |-> its wall-clock reading, aware |-> has a tzinfo,           *)
(*      off  |-> its UTC offset in hours (0 when naive)].                  *)
(* The system clock is the pair (now, localOff): the current instant in    *)
(* UTC hours and the UTC offset of the machine's local zone.               *)
(***************************************************************************)
EXTENDS Integers, Sequences, FiniteSets, TLC

VARIABLES
    pc,               \* position of the running computation
    now,              \* system clock: current instant, UTC hours
    localOff,         \* system clock: UTC offset of the local zone, hours
    repos,            \* list[RepoInfo] handed to an aggregator
    all_commits,      \* list[Commit] handed to an aggregator
    all_file_changes, \* list[FileChange] handed to an aggregator
    weeks,            \* compute_heatmap's weeks argument
    top_n,            \* compute_file_hotspots' top_n argument
    acc,              \* local variables of an aggregator's running loop
    result            \* value returned by the aggregator that ran

vars == <<pc, now, localOff, repos, all_commits, all_file_changes, weeks, top_n,
          acc, result>>

\* what a computation reads and never writes
inputs == <<now, localOff, repos, all_commits, all_file_changes, weeks, top_n, acc>>

(***************************************************************************)
(* Bounds of the model.                                                    *)
(***************************************************************************)
MaxCommits == 4       \* longest commit list given to compute_streaks
DaysBack == 3         \* oldest commit date given to it, in days before today
MaxWeeks == 2         \* largest weeks argument given to compute_heatmap
MaxHeatCommits == 2   \* longest commit list given to compute_heatmap
MaxFileChanges == 3   \* longest FileChange list given to compute_languages
MaxSplitCommits == 80 \* longest commit list given to compute_workday_split
MaxVelocityWeeks == 9 \* most distinct weeks in a list given to compute_code_velocity
MaxRepos == 2         \* longest repo list given to compute_file_hotspots
MaxHotChanges == 3    \* most FileChanges in all the repos of such a list
MaxTopN == 2          \* largest top_n given to compute_file_hotspots
MaxFocusCommits == 3  \* most commits in all the repos given to compute_focus_score
MaxBuildRecords == 3  \* most commits and FileChanges in all the repos given to build_analytics

(***************************************************************************)
(* Generic helpers.                                                        *)
(***************************************************************************)
Range(s) == {s[i] : i \in DOMAIN s}

SeqsUpTo(S, n) == UNION {[1..k -> S] : k \in 0..n}

Max(a, b) == IF a >= b THEN a ELSE b

Min(a, b) == IF a <= b THEN a ELSE b

RECURSIVE SumSeq(_)
SumSeq(s) == IF s = <<>> THEN 0 ELSE Head(s) + SumSeq(Tail(s))

\* sorted(S) for a set of integers
RECURSIVE sorted(_)
sorted(S) ==
    IF S = {} THEN <<>>
    ELSE LET m == CHOOSE x \in S : \A y \in S : x <= y
         IN  <<m>> \o sorted(S \ {m})

(***************************************************************************)
(* datetime / date                                                         *)
(***************************************************************************)
Naive(wall) == [wall |-> wall, aware |-> FALSE, off |-> 0]

Aware(wall, off) == [wall |-> wall, aware |-> TRUE, off |-> off]

\* date.today(): the local calendar date of the current instant
today == (now + localOff) \div 24

\* c.timestamp.astimezone().date() if c.timestamp.tzinfo else c.timestamp.date()
LocalDate(ts) ==
    IF ts.aware THEN (ts.wall - ts.off + localOff) \div 24
    ELSE ts.wall \div 24

\* Commit (git.py): the fields the aggregators read
Commit(h, ts, ins, dels) ==
    [hash |-> h, timestamp |-> ts, insertions |-> ins, deletions |-> dels]

(***************************************************************************)
(* compute_streaks                                                         *)
(***************************************************************************)
\* a longest-streak loop that no gap breaks
RECURSIVE LongestLoopAnyGap(_, _, _, _)
LongestLoopAnyGap(sorted_dates, i, longest, current_run) ==
    IF i > Len(sorted_dates) THEN longest
    ELSE LongestLoopAnyGap(sorted_dates, i + 1,
                           Max(longest, current_run + 1), current_run + 1)

\* the loop of lines 147-154 from index i on, with its two accumulators
RECURSIVE LongestLoop(_, _, _, _)
LongestLoop(sorted_dates, i, longest, current_run) ==
    IF i > Len(sorted_dates) THEN longest
    ELSE IF sorted_dates[i] - sorted_dates[i - 1] = 1
         THEN LongestLoop(sorted_dates, i + 1,
                          Max(longest, current_run + 1), current_run + 1)
         ELSE LongestLoop(sorted_dates, i + 1, longest, 1)

\* a longest-streak loop that forgets to count the first date of a run
LongestRunFromZero(sorted_dates) == LongestLoop(sorted_dates, 2, 0, 0)

LongestRun(sorted_dates) == LongestLoop(sorted_dates, 2, 1, 1)

\* the while loop of lines 163-165
RECURSIVE CountBack(_, _)
CountBack(check, dates) ==
    IF check \in dates THEN 1 + CountBack(check - 1, dates) ELSE 0

\* a current-streak walk that always starts at today
CurrentRunFromToday(dates) == CountBack(today, dates)

\* a current-streak walk that always starts at yesterday
CurrentRunFromYesterday(dates) == CountBack(today - 1, dates)

CurrentRun(dates) ==
    LET check == IF today \notin dates THEN today - 1 ELSE today
    IN  CountBack(check, dates)

CommitDates(commits) == {LocalDate(commits[i].timestamp) : i \in DOMAIN commits}

Streaks(current, longest, today_commits) ==
    [current |-> current, longest |-> longest, today_commits |-> today_commits]

compute_streaks(commits) ==
    IF commits = <<>> THEN Streaks(0, 0, 0)
    ELSE LET dates == CommitDates(commits)
             today_commits ==
                 Cardinality({i \in DOMAIN commits :
                                 LocalDate(commits[i].timestamp) = today})
         IN  Streaks(CurrentRun(dates), LongestRun(sorted(dates)), today_commits)

(***************************************************************************)
(* The streak computation on every bounded commit list.                    *)
(***************************************************************************)
\* timestamps around today: naive noons from DaysBack days ago to tomorrow,
\* and two zone-aware evenings whose local date is the day after their own
StreakStamps ==
    {Naive((today + k) * 24 + 12) : k \in (0 - DaysBack)..1}
        \cup {Aware((today + k) * 24 + 22, 0 - 5) : k \in {0 - 3, 0 - 1}}

StreakCommits == {Commit("c", ts, 1, 0) : ts \in StreakStamps}

InitStreaks ==
    /\ pc = "start"
    /\ now \in {250, 260}
    /\ localOff = 2
    /\ all_commits \in SeqsUpTo(StreakCommits, MaxCommits)
    /\ result = Streaks(0, 0, 0)
    /\ repos = <<>> /\ all_file_changes = <<>>
    /\ weeks = 0 /\ top_n = 0 /\ acc = <<>>

RunStreaks ==
    /\ pc = "start"
    /\ pc' = "done"
    /\ result' = compute_streaks(all_commits)
    /\ UNCHANGED inputs

NextStreaks == RunStreaks

SpecStreaks == InitStreaks /\ [][NextStreaks]_vars

\* C1: for every commit list (duplicate dates, gaps, dates after today),
\* compute_streaks returns current <= longest.
C1_CurrentLeqLongest ==
    pc = "done" => result.current <= result.longest

\* a commit dated tomorrow: the run today..tomorrow has two dates, and the
\* walk back from today counts one
C1_Witness ==
    /\ pc = "done"
    /\ result.current = 1
    /\ result.longest = 2
    /\ today + 1 \in CommitDates(all_commits)

\* C2: when the local dates of a non-empty commit list are exactly the N
\* consecutive dates ending today, compute_streaks returns longest = current = N.
C2_ConsecutiveEndingToday ==
    \A N \in 1..(MaxCommits + 1) :
        (pc = "done" /\ all_commits # <<>>
            /\ CommitDates(all_commits) = (today - N + 1)..today)
        => (result.longest = N /\ result.current = N)

\* three consecutive dates ending today, one of them committed on twice
C2_Witness ==
    /\ pc = "done"
    /\ Len(all_commits) = 4
    /\ CommitDates(all_commits) = (today - 2)..today
    /\ result.current = 3

\* the number of consecutive dates of the set that end at date d
RunEnding(d, dates) ==
    CHOOSE k \in 0..Cardinality(dates) :
        /\ \A j \in 0..(k - 1) : d - j \in dates
        /\ d - k \notin dates

\* C19: current is the length of the run of consecutive commit dates that
\* ends at today when today is a commit date, otherwise of the run that ends
\* at yesterday, and 0 when neither is a commit date.
C19_CurrentRunEndsTodayOrYesterday ==
    pc = "done" =>
        LET dates == CommitDates(all_commits)
        IN  /\ today \in dates => result.current = RunEnding(today, dates)
            /\ today \notin dates => result.current = RunEnding(today - 1, dates)
            /\ (today \notin dates /\ today - 1 \notin dates) => result.current = 0

\* commits 1, 2 and 3 days ago and none today: the streak of 3 survives
C19_Witness ==
    /\ pc = "done"
    /\ CommitDates(all_commits) = (today - 3)..(today - 1)
    /\ result.current = 3

\* C20: longest is the length of the longest run of consecutive dates among
\* the distinct commit dates: 0 for no commit, 1 for a single date however
\* many commits fall on it, and any gap of more than one day ends a run.
C20_LongestRunOfDates ==
    pc = "done" =>
        LET dates == CommitDates(all_commits)
        IN  /\ \A d \in dates : RunEnding(d, dates) <= result.longest
            /\ dates # {} => \E d \in dates : RunEnding(d, dates) = result.longest
            /\ dates = {} => result.longest = 0
            /\ Cardinality(dates) = 1 => result.longest = 1

\* four commits on three dates, two days in a row and one after a gap
C20_Witness ==
    /\ pc = "done"
    /\ Len(all_commits) = 4
    /\ CommitDates(all_commits) = {today - 3, today - 2, today}
    /\ result.longest = 2

(***************************************************************************)
(* compute_heatmap                                                         *)
(***************************************************************************)
\* date.weekday(): Monday = 0 .. Sunday = 6
weekday(d) == d % 7

\* a start that lies one week too early
HeatmapStartWeekEarly(wks) == today - (weekday(today) + 7 * wks)

\* today - timedelta(days=today.weekday(), weeks=weeks - 1)
HeatmapStart(wks) == today - (weekday(today) + 7 * (wks - 1))

\* counts.get(day, 0) of the Counter of lines 180-183
CountOn(commits, day) ==
    Cardinality({i \in DOMAIN commits : LocalDate(commits[i].timestamp) = day})

\* the date of cell [dow][week]: start + timedelta(weeks=week, days=dow)
CellDay(wks, dow, week) == HeatmapStart(wks) + 7 * week + dow

\* a cell filled without the test day <= today
HeatmapCellUnguarded(commits, wks, dow, week) ==
    CountOn(commits, CellDay(wks, dow, week))

HeatmapCell(commits, wks, dow, week) ==
    IF CellDay(wks, dow, week) <= today
    THEN CountOn(commits, CellDay(wks, dow, week))
    ELSE 0

\* the matrix: row dow + 1 and column week + 1 hold matrix[dow][week]
compute_heatmap(commits, wks) ==
    [r \in 1..7 |-> [w \in 1..wks |-> HeatmapCell(commits, wks, r - 1, w - 1)]]

(***************************************************************************)
(* The heatmap of every bounded commit list, for every weeks in 0..MaxWeeks.*)
(***************************************************************************)
\* naive noons from the day before the widest window to two days after
\* today, and one zone-aware evening whose local date is the next day
HeatStamps ==
    {Naive(d * 24 + 12) : d \in (today - 7 * MaxWeeks - 1)..(today + 2)}
        \cup {Aware((today - 1) * 24 + 22, 0 - 5)}

HeatCommits == {Commit("c", ts, 1, 0) : ts \in HeatStamps}

InitHeatmap ==
    /\ pc = "start"
    /\ now \in {250, 320, 346}
    /\ localOff = 2
    /\ all_commits \in SeqsUpTo(HeatCommits, MaxHeatCommits)
    /\ weeks \in 0..MaxWeeks
    /\ result = <<>>
    /\ repos = <<>> /\ all_file_changes = <<>>
    /\ top_n = 0 /\ acc = <<>>

RunHeatmap ==
    /\ pc = "start"
    /\ pc' = "done"
    /\ result' = compute_heatmap(all_commits, weeks)
    /\ UNCHANGED inputs

NextHeatmap == RunHeatmap

SpecHeatmap == InitHeatmap /\ [][NextHeatmap]_vars

\* commits whose local date lies in the window: Monday of the first column
\* up to and including today
InWindow(commits, wks) ==
    {i \in DOMAIN commits :
        /\ HeatmapStart(wks) <= LocalDate(commits[i].timestamp)
        /\ LocalDate(commits[i].timestamp) <= today}

MatrixSum(m) == SumSeq([r \in 1..Len(m) |-> SumSeq(m[r])])

\* C3: compute_heatmap returns exactly 7 rows of exactly `weeks` columns, the
\* cells sum to the number of commits whose local date lies in the window,
\* and every cell whose date is after today is 0.
C3_HeatmapShapeSumFuture ==
    pc = "done" =>
        /\ Len(result) = 7
        /\ \A r \in 1..7 : Len(result[r]) = weeks
        /\ MatrixSum(result) = Cardinality(InWindow(all_commits, weeks))
        /\ \A r \in 1..7 : \A w \in 1..weeks :
              CellDay(weeks, r - 1, w - 1) > today => result[r][w] = 0

\* two columns, one commit in the window and one dated later in the current week
C3_Witness ==
    /\ pc = "done"
    /\ weeks = 2
    /\ Len(all_commits) = 2
    /\ Cardinality(InWindow(all_commits, weeks)) = 1
    /\ \E i \in DOMAIN all_commits :
          /\ LocalDate(all_commits[i].timestamp) > today
          /\ LocalDate(all_commits[i].timestamp) < HeatmapStart(weeks) + 7 * weeks

\* the date the cell of row dow and column w stands for: the Monday of the
\* current week, minus weeks - 1 weeks, plus 7 * w + dow days
DateOfCell(dow, w) == today - (today % 7) - 7 * (weeks - 1) + 7 * w + dow

CommitsOnDate(commits, d) ==
    Cardinality({i \in DOMAIN commits : LocalDate(commits[i].timestamp) = d})

\* C18 as stated: for every weeks >= 1, cell [dow][w] equals the number of
\* commits whose local date is (Monday of the current week minus weeks - 1
\* weeks) + 7 * w + dow, and today's commits appear in cell
\* [today's weekday][weeks - 1].
C18_Original_EveryCellCountsItsDate ==
    (pc = "done" /\ weeks >= 1) =>
        /\ \A dow \in 0..6 : \A w \in 0..(weeks - 1) :
              result[dow + 1][w + 1] = CommitsOnDate(all_commits, DateOfCell(dow, w))
        /\ result[(today % 7) + 1][weeks] = CommitsOnDate(all_commits, today)

\* C18 amended: for every weeks >= 1, cell [dow][w] equals the number of
\* commits on its date when that date is not after today and is 0 when it
\* is; the last column is the current week and today's commits appear in
\* cell [today's weekday][weeks - 1].
C18_CellCountsItsDateUpToToday ==
    (pc = "done" /\ weeks >= 1) =>
        /\ \A dow \in 0..6 : \A w \in 0..(weeks - 1) :
              result[dow + 1][w + 1] =
                  IF DateOfCell(dow, w) <= today
                  THEN CommitsOnDate(all_commits, DateOfCell(dow, w))
                  ELSE 0
        /\ DateOfCell(today % 7, weeks - 1) = today
        /\ result[(today % 7) + 1][weeks] = CommitsOnDate(all_commits, today)

\* two columns on a Thursday: a commit made today in the last column and
\* one made on the Monday of the week before in the first
C18_Witness ==
    /\ pc = "done"
    /\ weeks = 2
    /\ today % 7 = 3
    /\ result[4][2] = 1
    /\ result[1][1] = 1

(***************************************************************************)
(* RepoInfo and compute_health_score                                       *)
(***************************************************************************)
\* Optional[datetime]: None is the empty tuple, a datetime ts is <<ts>>
None == <<>>

Some(ts) == <<ts>>

RepoInfo(path, name, branch_count, last_commit, has_readme, total_commits, is_dirty, commits, file_changes) ==
    [path |-> path, name |-> name, branch_count |-> branch_count,
     last_commit |-> last_commit, has_readme |-> has_readme,
     total_commits |-> total_commits, is_dirty |-> is_dirty,
     commits |-> commits, file_changes |-> file_changes]

\* the instant of a datetime in UTC hours; a naive one is read as UTC
\* (last_commit.replace(tzinfo=timezone.utc))
UtcInstant(ts) == IF ts.aware THEN ts.wall - ts.off ELSE ts.wall

\* (now - last).days: timedelta.days rounds toward minus infinity
DaysAgo(ts) == (now - UtcInstant(ts)) \div 24

\* a recency tier whose first threshold is strict (days_ago < 7)
RecencyPointsStrict(repo) ==
    IF repo.last_commit = None THEN 0
    ELSE LET days_ago == DaysAgo(repo.last_commit[1])
         IN  IF days_ago < 7 THEN 40
             ELSE IF days_ago <= 30 THEN 30
             ELSE IF days_ago <= 90 THEN 20
             ELSE IF days_ago <= 365 THEN 10
             ELSE 0

RecencyPoints(repo) ==
    IF repo.last_commit = None THEN 0
    ELSE LET days_ago == DaysAgo(repo.last_commit[1])
         IN  IF days_ago <= 7 THEN 40
             ELSE IF days_ago <= 30 THEN 30
             ELSE IF days_ago <= 90 THEN 20
             ELSE IF days_ago <= 365 THEN 10
             ELSE 0

VolumePoints(repo) ==
    IF repo.total_commits >= 100 THEN 20
    ELSE IF repo.total_commits >= 50 THEN 15
    ELSE IF repo.total_commits >= 10 THEN 10
    ELSE IF repo.total_commits >= 1 THEN 5
    ELSE 0

ReadmePoints(repo) == IF repo.has_readme THEN 15 ELSE 0

BranchPoints(repo) ==
    IF 1 <= repo.branch_count /\ repo.branch_count <= 5 THEN 15
    ELSE IF 6 <= repo.branch_count /\ repo.branch_count <= 10 THEN 10
    ELSE IF repo.branch_count > 10 THEN 5
    ELSE 0

\* a cleanliness tier that does not ask for a commit
CleanPointsAnyRepo(repo) == IF ~repo.is_dirty THEN 10 ELSE 0

CleanPoints(repo) ==
    IF ~repo.is_dirty /\ repo.total_commits > 0 THEN 10 ELSE 0

compute_health_score(repo) ==
    RecencyPoints(repo) + VolumePoints(repo) + ReadmePoints(repo)
        + BranchPoints(repo) + CleanPoints(repo)

(***************************************************************************)
(* The health score of every RepoInfo over the tier boundaries.            *)
(***************************************************************************)
\* ages of last_commit in hours: in the future, now, and both sides of the
\* 7, 30, 90 and 365 day thresholds
HealthAges ==
    {0 - 30, 0, 7 * 24, 7 * 24 + 23, 8 * 24, 30 * 24 + 23, 31 * 24,
     90 * 24 + 23, 91 * 24, 365 * 24 + 23, 366 * 24}

HealthLastCommits ==
    {None} \cup {Some(Naive(now - a)) : a \in HealthAges}
           \cup {Some(Aware(now - a + 9, 9)) : a \in {0 - 30, 7 * 24 + 23, 8 * 24}}

HealthRepos ==
    {RepoInfo(<<"/", "r">>, <<"r">>, bc, lc, rd, tc, dirty, <<>>, <<>>) :
        bc \in {0, 1, 5, 6, 10, 11, 40},
        lc \in HealthLastCommits,
        rd \in BOOLEAN,
        tc \in {0, 1, 9, 10, 49, 50, 99, 100, 250},
        dirty \in BOOLEAN}

InitHealth ==
    /\ pc = "start"
    /\ now = 9000
    /\ localOff = 2
    /\ repos \in {<<r>> : r \in HealthRepos}
    /\ result = 0
    /\ all_commits = <<>> /\ all_file_changes = <<>>
    /\ weeks = 0 /\ top_n = 0 /\ acc = <<>>

RunHealth ==
    /\ pc = "start"
    /\ pc' = "done"
    /\ result' = compute_health_score(repos[1])
    /\ UNCHANGED inputs

NextHealth == RunHealth

SpecHealth == InitHealth /\ [][NextHealth]_vars

\* last_commit is present and at most 7 days (168 hours) before now
WithinSevenDays(repo) ==
    /\ repo.last_commit # None
    /\ now - UtcInstant(repo.last_commit[1]) <= 7 * 24

\* C4: compute_health_score returns an integer in [0,100], and exactly 100
\* when last_commit is within 7 days, total_commits >= 100, has_readme is
\* true, branch_count is in [1,5] and is_dirty is false.
C4_HealthRangeAndPerfect ==
    pc = "done" =>
        /\ result \in 0..100
        /\ (/\ WithinSevenDays(repos[1])
            /\ repos[1].total_commits >= 100
            /\ repos[1].has_readme
            /\ repos[1].branch_count \in 1..5
            /\ ~repos[1].is_dirty) => result = 100

\* the perfect repo whose last commit is exactly 7 days old
C4_Witness ==
    /\ pc = "done"
    /\ repos[1].last_commit = Some(Naive(now - 7 * 24))
    /\ repos[1].total_commits = 100
    /\ repos[1].has_readme
    /\ repos[1].branch_count = 5
    /\ ~repos[1].is_dirty
    /\ result = 100

(***************************************************************************)
(* The five tiers of compute_health_score, scored again after one field    *)
(* of the RepoInfo was changed.                                            *)
(***************************************************************************)
\* what each block of compute_health_score adds to score
HealthTiers(repo) ==
    [recency |-> RecencyPoints(repo), volume |-> VolumePoints(repo),
     readme |-> ReadmePoints(repo), branches |-> BranchPoints(repo),
     clean |-> CleanPoints(repo)]

TierLastCommits ==
    {None} \cup {Some(Naive(now - a)) :
                    a \in {0 - 30, 7 * 24 + 23, 8 * 24, 30 * 24 + 23, 31 * 24,
                           90 * 24 + 23, 91 * 24, 365 * 24 + 23, 366 * 24}}

TierTotals == {0, 1, 9, 10, 49, 50, 99, 100}

TierBranches == {0, 1, 5, 6, 10, 11}

TierFields == {"last_commit", "total_commits", "has_readme", "branch_count", "is_dirty"}

InitTiers ==
    /\ pc = "start"
    /\ now = 9000
    /\ localOff = 2
    /\ \E bc \in TierBranches, lc \in TierLastCommits, rd \in BOOLEAN,
          tc \in TierTotals, dirty \in BOOLEAN :
          repos = <<RepoInfo(<<"/", "r">>, <<"r">>, bc, lc, rd, tc, dirty, <<>>, <<>>)>>
    /\ result = 0
    /\ all_commits = <<>> /\ all_file_changes = <<>>
    /\ weeks = 0 /\ top_n = 0
    /\ acc = [changed |-> "", before |-> <<>>, tiers |-> <<>>]

\* score = compute_health_score(repo)
RunTiers ==
    /\ pc = "start"
    /\ pc' = "done"
    /\ result' = compute_health_score(repos[1])
    /\ acc' = [acc EXCEPT !.tiers = HealthTiers(repos[1])]
    /\ UNCHANGED <<now, localOff, repos, all_commits, all_file_changes, weeks, top_n>>

\* the caller changes one field of the RepoInfo and scores it again
ChangeField ==
    /\ pc = "done"
    /\ acc.changed = ""
    /\ pc' = "start"
    /\ \E f \in TierFields :
          /\ \/ /\ f = "last_commit"
                /\ \E v \in TierLastCommits \ {repos[1].last_commit} :
                      repos' = [repos EXCEPT ![1].last_commit = v]
             \/ /\ f = "total_commits"
                /\ \E v \in TierTotals \ {repos[1].total_commits} :
                      repos' = [repos EXCEPT ![1].total_commits = v]
             \/ /\ f = "has_readme"
                /\ repos' = [repos EXCEPT ![1].has_readme = ~@]
             \/ /\ f = "branch_count"
                /\ \E v \in TierBranches \ {repos[1].branch_count} :
                      repos' = [repos EXCEPT ![1].branch_count = v]
             \/ /\ f = "is_dirty"
                /\ repos' = [repos EXCEPT ![1].is_dirty = ~@]
          /\ acc' = [acc EXCEPT !.changed = f, !.before = acc.tiers]
    /\ UNCHANGED <<now, localOff, all_commits, all_file_changes, weeks, top_n, result>>

NextTiers == RunTiers \/ ChangeField

SpecTiers == InitTiers /\ [][NextTiers]_vars

\* the points the tier table gives a RepoInfo, with the age of last_commit
\* taken in hours: n whole days have passed up to the hour before day n + 1
TableRecency(repo) ==
    IF repo.last_commit = None THEN 0
    ELSE LET h == now - UtcInstant(repo.last_commit[1])
         IN  IF h < 8 * 24 THEN 40
             ELSE IF h < 31 * 24 THEN 30
             ELSE IF h < 91 * 24 THEN 20
             ELSE IF h < 366 * 24 THEN 10 ELSE 0

TableVolume(repo) ==
    CHOOSE p \in {0, 5, 10, 15, 20} :
        /\ p = 20 <=> repo.total_commits >= 100
        /\ p = 15 <=> repo.total_commits \in 50..99
        /\ p = 10 <=> repo.total_commits \in 10..49
        /\ p = 5 <=> repo.total_commits \in 1..9

TableBranches(repo) ==
    CHOOSE p \in {0, 5, 10, 15} :
        /\ p = 15 <=> repo.branch_count \in 1..5
        /\ p = 10 <=> repo.branch_count \in 6..10
        /\ p = 5 <=> repo.branch_count > 10

TableClean(repo) == IF repo.is_dirty \/ repo.total_commits = 0 THEN 0 ELSE 10

\* the score is the sum of the five tiers of the table
ScoreIsTierSum ==
    /\ acc.tiers.recency = TableRecency(repos[1])
    /\ acc.tiers.volume = TableVolume(repos[1])
    /\ acc.tiers.readme = (IF repos[1].has_readme THEN 15 ELSE 0)
    /\ acc.tiers.branches = TableBranches(repos[1])
    /\ acc.tiers.clean = TableClean(repos[1])
    /\ result = TableRecency(repos[1]) + TableVolume(repos[1])
                   + (IF repos[1].has_readme THEN 15 ELSE 0)
                   + TableBranches(repos[1]) + TableClean(repos[1])

\* the tiers whose points did not move when the field was changed
SameTiers(names) == \A t \in names : acc.tiers[t] = acc.before[t]

AllTiers == {"recency", "volume", "readme", "branches", "clean"}

\* C21 as stated: the score is the sum of the five tiers, and changing the
\* input of one tier (last_commit for recency, total_commits for volume,
\* has_readme for documentation, branch_count for branch hygiene, is_dirty
\* for cleanliness) never changes the points of another tier.
C21_Original_TiersIndependent ==
    (pc = "done") =>
        /\ ScoreIsTierSum
        /\ acc.changed = "last_commit" => SameTiers(AllTiers \ {"recency"})
        /\ acc.changed = "total_commits" => SameTiers(AllTiers \ {"volume"})
        /\ acc.changed = "has_readme" => SameTiers(AllTiers \ {"readme"})
        /\ acc.changed = "branch_count" => SameTiers(AllTiers \ {"branches"})
        /\ acc.changed = "is_dirty" => SameTiers(AllTiers \ {"clean"})

\* C21: the score is the sum of the five tiers; changing last_commit,
\* has_readme, branch_count or is_dirty moves only the points of its own
\* tier, and changing total_commits moves the volume points and, between 0
\* and a positive count on a clean repo, the cleanliness points, no others.
C21_TiersAdditive ==
    (pc = "done") =>
        /\ ScoreIsTierSum
        /\ acc.changed = "last_commit" => SameTiers(AllTiers \ {"recency"})
        /\ acc.changed = "total_commits" =>
              /\ SameTiers(AllTiers \ {"volume", "clean"})
              /\ (repos[1].is_dirty \/ (acc.before.volume = 0) = (acc.tiers.volume = 0))
                     => SameTiers({"clean"})
        /\ acc.changed = "has_readme" => SameTiers(AllTiers \ {"readme"})
        /\ acc.changed = "branch_count" => SameTiers(AllTiers \ {"branches"})
        /\ acc.changed = "is_dirty" => SameTiers(AllTiers \ {"clean"})

\* a clean repo scored with no commit and again with one
C21_Witness ==
    /\ pc = "done"
    /\ acc.changed = "total_commits"
    /\ repos[1].total_commits = 1
    /\ acc.before.volume = 0 /\ acc.tiers.volume = 5
    /\ acc.before.clean = 0 /\ acc.tiers.clean = 10
    /\ result = acc.tiers.recency + 5 + acc.tiers.readme + acc.tiers.branches + 10


(***************************************************************************)
(* compute_languages                                                       *)
(***************************************************************************)
EXT_MAP ==
    (".py" :> "Python") @@ (".js" :> "JavaScript") @@ (".ts" :> "TypeScript")
    @@ (".jsx" :> "React JSX") @@ (".tsx" :> "React TSX")
    @@ (".go" :> "Go") @@ (".rs" :> "Rust") @@ (".rb" :> "Ruby")
    @@ (".java" :> "Java") @@ (".kt" :> "Kotlin") @@ (".swift" :> "Swift")
    @@ (".c" :> "C") @@ (".cpp" :> "C++") @@ (".h" :> "C/C++ Header")
    @@ (".cs" :> "C#") @@ (".php" :> "PHP") @@ (".dart" :> "Dart")
    @@ (".html" :> "HTML") @@ (".css" :> "CSS") @@ (".scss" :> "SCSS")
    @@ (".json" :> "JSON") @@ (".yaml" :> "YAML") @@ (".yml" :> "YAML")
    @@ (".toml" :> "TOML") @@ (".xml" :> "XML")
    @@ (".md" :> "Markdown") @@ (".txt" :> "Text")
    @@ (".sh" :> "Shell") @@ (".bash" :> "Shell") @@ (".zsh" :> "Shell")
    @@ (".sql" :> "SQL") @@ (".r" :> "R") @@ (".lua" :> "Lua")
    @@ (".ex" :> "Elixir") @@ (".exs" :> "Elixir") @@ (".erl" :> "Erlang")
    @@ (".zig" :> "Zig") @@ (".nim" :> "Nim") @@ (".v" :> "V")
    @@ (".sol" :> "Solidity") @@ (".vue" :> "Vue") @@ (".svelte" :> "Svelte")

\* EXT_MAP.get(ext, ext)
Language(ext) == IF ext \in DOMAIN EXT_MAP THEN EXT_MAP[ext] ELSE ext

\* FileChange (git.py)
FileChange(h, ts, path, ext, added, removed) ==
    [hash |-> h, timestamp |-> ts, path |-> path, ext |-> ext,
     added |-> added, removed |-> removed]

\* A Counter / dict is the sequence of its <<key, value>> items in insertion
\* order.
Keys(d) == [i \in DOMAIN d |-> d[i][1]]

Values(d) == [i \in DOMAIN d |-> d[i][2]]

HasKey(d, k) == \E i \in DOMAIN d : d[i][1] = k

\* d[k], with the default 0 of a Counter or a defaultdict(int)
Get(d, k) ==
    IF HasKey(d, k) THEN d[CHOOSE i \in DOMAIN d : d[i][1] = k][2] ELSE 0

\* d[k] = n in place of d[k] += n
CounterAssign(d, k, n) ==
    IF HasKey(d, k)
    THEN [i \in DOMAIN d |-> IF d[i][1] = k THEN <<k, n>> ELSE d[i]]
    ELSE Append(d, <<k, n>>)

\* d[k] += n: a new key goes last, an old one keeps its place
CounterAdd(d, k, n) ==
    IF HasKey(d, k)
    THEN [i \in DOMAIN d |-> IF d[i][1] = k THEN <<k, d[i][2] + n>> ELSE d[i]]
    ELSE Append(d, <<k, n>>)

\* an item put into a list sorted by value, descending, behind its equals
RECURSIVE InsertDesc(_, _)
InsertDesc(s, item) ==
    IF s = <<>> THEN <<item>>
    ELSE IF Head(s)[2] >= item[2] THEN <<Head(s)>> \o InsertDesc(Tail(s), item)
    ELSE <<item>> \o s

\* sorted(items, key=value, reverse=True): stable, so equal values keep
\* their order
RECURSIVE SortDesc(_)
SortDesc(d) ==
    IF d = <<>> THEN <<>>
    ELSE InsertDesc(SortDesc(SubSeq(d, 1, Len(d) - 1)), d[Len(d)])

\* Counter.most_common()
most_common(d) == SortDesc(d)

\* the loop of lines 199-201 from index i on
RECURSIVE LanguageCounts(_, _, _)
LanguageCounts(fcs, i, ext_counts) ==
    IF i > Len(fcs) THEN ext_counts
    ELSE LanguageCounts(fcs, i + 1,
             CounterAdd(ext_counts, Language(fcs[i].ext),
                        fcs[i].added + fcs[i].removed))

compute_languages(fcs) == most_common(LanguageCounts(fcs, 1, <<>>))

(***************************************************************************)
(* The language totals of every bounded FileChange list.                   *)
(***************************************************************************)
\* two extensions of one language, one of another, and one not in EXT_MAP
LangFileChanges ==
    {FileChange("h", Naive(250), <<"f">>, ext, ar[1], ar[2]) :
        ext \in {".yaml", ".yml", ".py", ".proto"},
        ar \in {<<0, 0>>, <<1, 0>>, <<2, 3>>}}

InitLanguages ==
    /\ pc = "start"
    /\ now = 250
    /\ localOff = 2
    /\ all_file_changes \in SeqsUpTo(LangFileChanges, MaxFileChanges)
    /\ result = <<>>
    /\ repos = <<>> /\ all_commits = <<>>
    /\ weeks = 0 /\ top_n = 0 /\ acc = <<>>

RunLanguages ==
    /\ pc = "start"
    /\ pc' = "done"
    /\ result' = compute_languages(all_file_changes)
    /\ UNCHANGED inputs

NextLanguages == RunLanguages

SpecLanguages == InitLanguages /\ [][NextLanguages]_vars

\* the sum of added + removed over a FileChange list
TotalLines(fcs) == SumSeq([i \in DOMAIN fcs |-> fcs[i].added + fcs[i].removed])

\* C5: the values of the mapping returned by compute_languages sum to the
\* sum of added + removed over all input FileChanges.
C5_LanguageTotalPreserved ==
    pc = "done" =>
        /\ SumSeq(Values(result)) = TotalLines(all_file_changes)
        /\ \A i, j \in DOMAIN result : result[i][1] = result[j][1] => i = j

\* .yaml and .yml merged into YAML next to an extension passed through
C5_Witness ==
    /\ pc = "done"
    /\ {all_file_changes[i].ext : i \in DOMAIN all_file_changes}
           = {".yaml", ".yml", ".proto"}
    /\ Get(result, "YAML") = 6
    /\ Get(result, ".proto") = 5
    /\ Len(result) = 2

(***************************************************************************)
(* Python floats: IEEE-754 binary64, round to nearest, ties to even.       *)
(* A positive float is [m |-> its 53 significand bits, most significant    *)
(* first, e |-> the exponent of the last bit]: its value is m * 2^e.       *)
(* Zero has no bits.                                                       *)
(***************************************************************************)
Precision == 53

FloatZero == [m |-> <<>>, e |-> 0]

\* the number of binary digits of n (0 <= n < 2^30)
BitLength(n) == CHOOSE L \in 0..30 : n < 2^L /\ (L = 0 \/ n >= 2^(L - 1))

\* the binary digits of a natural number, most significant first
BitsOfNat(n) == [i \in 1..BitLength(n) |-> (n \div 2^(BitLength(n) - i)) % 2]

\* the number a short bit string denotes
RECURSIVE NatOfBits(_)
NatOfBits(b) ==
    IF b = <<>> THEN 0
    ELSE 2 * NatOfBits(SubSeq(b, 1, Len(b) - 1)) + b[Len(b)]

Zeros(n) == [i \in 1..n |-> 0]

\* a bit string without its leading zeros
Strip(b) ==
    IF \A i \in DOMAIN b : b[i] = 0 THEN <<>>
    ELSE LET first == CHOOSE i \in DOMAIN b :
                          b[i] = 1 /\ \A j \in 1..(i - 1) : b[j] = 0
         IN  SubSeq(b, first, Len(b))

\* b + 1
Increment(b) ==
    IF \A i \in DOMAIN b : b[i] = 1 THEN <<1>> \o Zeros(Len(b))
    ELSE LET p == CHOOSE i \in DOMAIN b :
                      b[i] = 0 /\ \A j \in (i + 1)..Len(b) : b[j] = 1
         IN  [i \in DOMAIN b |-> IF i < p THEN b[i] ELSE IF i = p THEN 1 ELSE 0]

\* Long multiplication runs on limbs of LimbBits bits.
LimbBits == 14

\* limbs j.. of a number times c: <<carry out, product limbs>>
RECURSIVE MulLimbs(_, _, _)
MulLimbs(limbs, c, j) ==
    IF j > Len(limbs) THEN <<0, <<>>>>
    ELSE LET lower == MulLimbs(limbs, c, j + 1)
             v     == limbs[j] * c + lower[1]
         IN  <<v \div 2^LimbBits, <<v % 2^LimbBits>> \o lower[2]>>

\* b * c for a small positive integer c, exactly
TimesSmall(b, c) ==
    LET n      == (Len(b) + LimbBits - 1) \div LimbBits
        padded == Zeros(n * LimbBits - Len(b)) \o b
        limbs  == [j \in 1..n |->
                      NatOfBits(SubSeq(padded, (j - 1) * LimbBits + 1, j * LimbBits))]
        prod   == MulLimbs(limbs, c, 1)
        low    == [i \in 1..(n * LimbBits) |->
                      (prod[2][((i - 1) \div LimbBits) + 1]
                          \div 2^(LimbBits - 1 - ((i - 1) % LimbBits))) % 2]
    IN  Strip(BitsOfNat(prod[1]) \o low)

\* The float nearest to a positive real given as bits * 2^e plus, when
\* sticky, a rest smaller than one unit of the last bit.
RoundBits(bits, e, sticky) ==
    LET L == Len(bits)
    IN  IF L <= Precision
        THEN [m |-> bits \o Zeros(Precision - L), e |-> e - (Precision - L)]
        ELSE LET kept == SubSeq(bits, 1, Precision)
                 tail == sticky \/ \E i \in (Precision + 2)..L : bits[i] = 1
                 up   == bits[Precision + 1] = 1 /\ (tail \/ kept[Precision] = 1)
                 m1   == IF up THEN Increment(kept) ELSE kept
             IN  IF Len(m1) > Precision
                 THEN [m |-> SubSeq(m1, 1, Precision), e |-> e + (L - Precision) + 1]
                 ELSE [m |-> m1, e |-> e + (L - Precision)]

\* 2^j mod b by repeated squaring (b < 2^15, so no product overflows)
RECURSIVE PowMod2(_, _)
PowMod2(j, b) ==
    IF j = 0 THEN 1 % b
    ELSE IF j % 2 = 0 THEN LET h == PowMod2(j \div 2, b) IN (h * h) % b
    ELSE (2 * PowMod2(j - 1, b)) % b

\* what remains of r / b after i binary digits: (r * 2^i) mod b
FracRest(r, b, i) == (r * PowMod2(i, b)) % b

\* binary digit i after the point of r / b (0 <= r < b)
FracBit(r, b, i) == IF 2 * FracRest(r, b, i - 1) >= b THEN 1 ELSE 0

\* the zero digits of r / b right after the point (0 < r < b < 2^15)
LeadingZeros(r, b) ==
    CHOOSE z \in 0..15 :
        FracBit(r, b, z + 1) = 1 /\ \A i \in 1..z : FracBit(r, b, i) = 0

\* a / b for integers a >= 0 and 0 < b < 2^15 (both exact as floats)
FloatDiv(a, b) ==
    IF a = 0 THEN FloatZero
    ELSE LET ib == BitsOfNat(a \div b)
             z  == IF a \div b = 0 THEN LeadingZeros(a % b, b) ELSE 0
             k  == Precision + 1 - Len(ib)
             fb == [i \in 1..k |-> FracBit(a % b, b, z + i)]
         IN  RoundBits(ib \o fb, 0 - (z + k), FracRest(a % b, b, z + k) # 0)

\* x * c for a small positive integer c
FloatTimes(x, c) ==
    IF x.m = <<>> THEN FloatZero ELSE RoundBits(TimesSmall(x.m, c), x.e, FALSE)

\* x == y, x < y for floats >= 0
FloatLess(x, y) ==
    IF y.m = <<>> THEN FALSE
    ELSE IF x.m = <<>> THEN TRUE
    ELSE IF x.e # y.e THEN x.e < y.e
    ELSE \E i \in 1..Precision :
            /\ x.m[i] < y.m[i]
            /\ \A j \in 1..(i - 1) : x.m[j] = y.m[j]

FloatLeq(x, y) == x = y \/ FloatLess(x, y)

\* round(x, 1) in tenths: the integer n with round(x, 1) == n / 10.  Python
\* rounds the exact value of the float to the nearest tenth, an exact tie
\* to the even one.
RoundTenths(x) ==
    IF x.m = <<>> THEN 0
    ELSE LET q    == TimesSmall(x.m, 10)
             f    == 0 - x.e
             L    == Len(q)
             int  == IF L > f THEN NatOfBits(SubSeq(q, 1, L - f)) ELSE 0
             frac == IF L >= f THEN SubSeq(q, L - f + 1, L) ELSE Zeros(f - L) \o q
             tail == \E i \in 2..f : frac[i] = 1
             up   == frac[1] = 1 /\ (tail \/ int % 2 = 1)
         IN  IF up THEN int + 1 ELSE int

(***************************************************************************)
(* compute_workday_split                                                   *)
(***************************************************************************)
\* Percentages are kept in tenths: weekday_pct |-> 287 is 28.7.
WorkdaySplit(weekday_commits, weekend_commits, weekday_pct, weekend_pct, weekday_lines, weekend_lines) ==
    [weekday_commits |-> weekday_commits, weekend_commits |-> weekend_commits,
     weekday_pct |-> weekday_pct, weekend_pct |-> weekend_pct,
     weekday_lines |-> weekday_lines, weekend_lines |-> weekend_lines]

\* a divisor that counts the weekday commits only
SplitTotalWeekdayOnly(weekday_commits, weekend_commits) ==
    IF weekday_commits # 0 THEN weekday_commits ELSE 1

\* weekday_commits + weekend_commits or 1
SplitTotal(weekday_commits, weekend_commits) ==
    IF weekday_commits + weekend_commits # 0
    THEN weekday_commits + weekend_commits
    ELSE 1

\* round(count / total * 100, 1), in tenths
Percent(count, total) == RoundTenths(FloatTimes(FloatDiv(count, total), 100))

\* a loop body that takes the weekday of the UTC date
SplitStepUtc(a, c) ==
    LET lines == c.insertions + c.deletions
    IN  IF weekday(UtcInstant(c.timestamp) \div 24) < 5
        THEN [a EXCEPT !.weekday_commits = @ + 1, !.weekday_lines = @ + lines]
        ELSE [a EXCEPT !.weekend_commits = @ + 1, !.weekend_lines = @ + lines]

\* the body of the loop of lines 441-449 on commit c
SplitStep(a, c) ==
    LET lines == c.insertions + c.deletions
    IN  IF weekday(LocalDate(c.timestamp)) < 5
        THEN [a EXCEPT !.weekday_commits = @ + 1, !.weekday_lines = @ + lines]
        ELSE [a EXCEPT !.weekend_commits = @ + 1, !.weekend_lines = @ + lines]

\* lines 451-459
SplitResult(a) ==
    LET total == SplitTotal(a.weekday_commits, a.weekend_commits)
    IN  WorkdaySplit(a.weekday_commits, a.weekend_commits,
                     Percent(a.weekday_commits, total),
                     Percent(a.weekend_commits, total),
                     a.weekday_lines, a.weekend_lines)

SplitLocals ==
    [weekday_commits |-> 0, weekend_commits |-> 0,
     weekday_lines |-> 0, weekend_lines |-> 0]

(***************************************************************************)
(* compute_workday_split run commit by commit.  The list is read once,     *)
(* front to back, so it is not stored: each step draws its next element.   *)
(***************************************************************************)
\* one commit at noon of each day of a week and a zone-aware one of Friday
\* evening that is Saturday morning here
SplitCommits ==
    {Commit("c", Naive((7 + d) * 24 + 12), 2, 1) : d \in 0..6}
        \cup {Commit("c", Aware(11 * 24 + 22, 0 - 5), 2, 1)}

InitSplit ==
    /\ pc = "entry"
    /\ now = 346
    /\ localOff = 2
    /\ acc = SplitLocals
    /\ result = WorkdaySplit(0, 0, 0, 0, 0, 0)
    /\ repos = <<>> /\ all_commits = <<>> /\ all_file_changes = <<>>
    /\ weeks = 0 /\ top_n = 0

\* if not all_commits: return WorkdaySplit()
SplitReturnEmpty ==
    /\ pc = "entry"
    /\ pc' = "done"
    /\ result' = WorkdaySplit(0, 0, 0, 0, 0, 0)
    /\ UNCHANGED inputs

\* for c in all_commits
SplitLoop ==
    /\ pc \in {"entry", "loop"}
    /\ acc.weekday_commits + acc.weekend_commits < MaxSplitCommits
    /\ \E c \in SplitCommits : acc' = SplitStep(acc, c)
    /\ pc' = "loop"
    /\ UNCHANGED <<now, localOff, repos, all_commits, all_file_changes, weeks,
                   top_n, result>>

\* the list is exhausted
SplitReturn ==
    /\ pc = "loop"
    /\ pc' = "done"
    /\ result' = SplitResult(acc)
    /\ UNCHANGED inputs

NextSplit == SplitReturnEmpty \/ SplitLoop \/ SplitReturn

SpecSplit == InitSplit /\ [][NextSplit]_vars

\* the distance of weekday_pct + weekend_pct from 100.0, in tenths
SplitSumError ==
    LET sum == result.weekday_pct + result.weekend_pct
    IN  IF sum >= 1000 THEN sum - 1000 ELSE 1000 - sum

SplitEmptyInput == acc.weekday_commits + acc.weekend_commits = 0

\* C6 as claimed: for a non-empty commit list weekday_pct + weekend_pct
\* differs from 100.0 by less than 0.1; for the empty list both are 0.
C6_Original_SumWithinLessThanTenth ==
    pc = "done" =>
        IF SplitEmptyInput
        THEN result.weekday_pct = 0 /\ result.weekend_pct = 0
        ELSE SplitSumError < 1

\* C6 as amended: for a non-empty commit list weekday_pct + weekend_pct
\* differs from 100.0 by at most 0.1 (the sum is 99.9, 100.0 or 100.1); for
\* the empty list both are 0.
C6_SumWithinTenth ==
    pc = "done" =>
        IF SplitEmptyInput
        THEN result.weekday_pct = 0 /\ result.weekend_pct = 0
        ELSE SplitSumError <= 1

\* 23 weekday and 57 weekend commits: 28.7 and 71.2
C6_Witness ==
    /\ pc = "done"
    /\ result.weekday_commits = 23
    /\ result.weekend_commits = 57
    /\ result.weekday_pct = 287
    /\ result.weekend_pct = 712

(***************************************************************************)
(* compute_code_velocity                                                   *)
(***************************************************************************)
\* date.isocalendar() of a day number, <<ISO year, ISO week>>, for the ISO
\* years 2024 (52 weeks), 2025 (52 weeks) and 2026 (53 weeks)
isocalendar(d) ==
    LET w == d \div 7
    IN  IF w < 0 THEN <<2024, w + 53>>
        ELSE IF w <= 51 THEN <<2025, w + 1>>
        ELSE <<2026, w - 51>>

\* f"{iso[0]}-W{iso[1]:02d}": the year, then the week's two decimal digits.
\* A key is the tuple of the numbers its text shows; texts compare as the
\* tuples do, position by position.
WeekKeyUnpadded(d) ==
    LET iso == isocalendar(d)
    IN  IF iso[2] < 10 THEN <<iso[1], iso[2]>>
        ELSE <<iso[1], iso[2] \div 10, iso[2] % 10>>

WeekKey(d) ==
    LET iso == isocalendar(d)
    IN  <<iso[1], iso[2] \div 10, iso[2] % 10>>

\* k1 < k2 as str compares: at the first position where they differ, or
\* k1 a proper prefix of k2
KeyLess(k1, k2) ==
    \/ \E i \in 1..Min(Len(k1), Len(k2)) :
          /\ k1[i] < k2[i]
          /\ \A j \in 1..(i - 1) : k1[j] = k2[j]
    \/ /\ Len(k1) < Len(k2)
       /\ \A j \in 1..Len(k1) : k1[j] = k2[j]

\* sorted(keys)
RECURSIVE SortKeys(_)
SortKeys(S) ==
    IF S = {} THEN <<>>
    ELSE LET m == CHOOSE x \in S : \A y \in S \ {x} : KeyLess(x, y)
         IN  <<m>> \o SortKeys(S \ {m})

CommitWeekKey(c) == WeekKey(LocalDate(c.timestamp))

RECURSIVE SumLines(_, _)
SumLines(commits, idx) ==
    IF idx = {} THEN 0
    ELSE LET i == CHOOSE j \in idx : TRUE
         IN  commits[i].insertions + commits[i].deletions
                 + SumLines(commits, idx \ {i})

\* the floats of the literals 1.15 and 0.85
Float_1_15 == FloatDiv(115, 100)

Float_0_85 == FloatDiv(85, 100)

\* a trend whose thresholds are strict
TrendOfStrict(recent_sum, prior_sum) ==
    IF prior_sum > 0
    THEN LET ratio == FloatDiv(recent_sum, prior_sum)
         IN  IF FloatLess(Float_1_15, ratio) THEN "up"
             ELSE IF FloatLess(ratio, Float_0_85) THEN "down"
             ELSE "stable"
    ELSE "stable"

\* lines 378-385.  recent_avg and prior_avg are the sums over 4, exact in
\* binary, so their quotient is the float nearest to recent_sum / prior_sum.
TrendOf(recent_sum, prior_sum) ==
    IF prior_sum > 0
    THEN LET ratio == FloatDiv(recent_sum, prior_sum)
         IN  IF FloatLeq(Float_1_15, ratio) THEN "up"
             ELSE IF FloatLeq(ratio, Float_0_85) THEN "down"
             ELSE "stable"
    ELSE "stable"

CodeVelocity(commits_by_week, lines_by_week, trend, peak_week, peak_commits) ==
    [commits_by_week |-> commits_by_week, lines_by_week |-> lines_by_week,
     trend |-> trend, peak_week |-> peak_week, peak_commits |-> peak_commits]

compute_code_velocity(commits) ==
    IF commits = <<>> THEN CodeVelocity(<<>>, <<>>, "stable", <<>>, 0)
    ELSE
    LET sorted_weeks == SortKeys({CommitWeekKey(commits[i]) : i \in DOMAIN commits})
        n == Len(sorted_weeks)
        InWeek(k) == {i \in DOMAIN commits : CommitWeekKey(commits[i]) = k}
        commits_by_week ==
            [j \in 1..n |-> <<sorted_weeks[j], Cardinality(InWeek(sorted_weeks[j]))>>]
        lines_by_week ==
            [j \in 1..n |-> <<sorted_weeks[j], SumLines(commits, InWeek(sorted_weeks[j]))>>]
        \* max(commits_by_week, key=commits_by_week.get): the first maximum
        peak == CHOOSE j \in 1..n :
                    /\ \A i \in 1..n : commits_by_week[i][2] <= commits_by_week[j][2]
                    /\ \A i \in 1..(j - 1) : commits_by_week[i][2] < commits_by_week[j][2]
        recent_sum == SumSeq([j \in 1..4 |-> commits_by_week[n - 4 + j][2]])
        prior_sum  == SumSeq([j \in 1..4 |-> commits_by_week[n - 8 + j][2]])
        trend == IF n >= 8 THEN TrendOf(recent_sum, prior_sum) ELSE "stable"
    IN  CodeVelocity(commits_by_week, lines_by_week, trend,
                     commits_by_week[peak][1], commits_by_week[peak][2])

(***************************************************************************)
(* The velocity of commit lists over up to MaxVelocityWeeks distinct       *)
(* weeks, the weeks adjacent from 2024-W49 on or one week apart from       *)
(* 2025-W08 on.  Each of the two most recent weeks holds 1, 5 or 6         *)
(* commits, each of the six before them 5 or 6, each older one 1 or 6:     *)
(* the totals reach 23 against 20 (1.15) and 17 against 20 (0.85).         *)
(***************************************************************************)
\* the commit counts of the k-th most recent week
CountChoices(k) == IF k <= 2 THEN {1, 5, 6} ELSE IF k <= 8 THEN {5, 6} ELSE {1, 6}

VelocityCounts ==
    UNION {{cnt \in [1..n -> {1, 5, 6}] :
               \A i \in 1..n : cnt[i] \in CountChoices(n - i + 1)} :
           n \in 0..MaxVelocityWeeks}

RECURSIVE PrefixSum(_, _)
PrefixSum(cnt, i) == IF i = 0 THEN 0 ELSE cnt[i] + PrefixSum(cnt, i - 1)

\* cnt[i] commits in week first + (i - 1) * stride, for each i
VelocityList(cnt, first, stride) ==
    [j \in 1..PrefixSum(cnt, Len(cnt)) |->
        LET i == CHOOSE s \in DOMAIN cnt :
                     PrefixSum(cnt, s - 1) < j /\ j <= PrefixSum(cnt, s)
            day == 7 * (first + (i - 1) * stride) + (j % 7)
        IN  IF j % 2 = 0 THEN Commit("c", Naive(day * 24 + 12), 2, 1)
            ELSE Commit("c", Aware(day * 24 + 12, localOff), 2, 1)]

InitVelocity ==
    /\ pc = "start"
    /\ now = 9000
    /\ localOff = 2
    /\ all_commits \in
          {VelocityList(cnt, fs[1], fs[2]) :
              cnt \in VelocityCounts,
              fs \in {<<0 - 4, 1>>, <<7, 2>>}}
    /\ result = CodeVelocity(<<>>, <<>>, "stable", <<>>, 0)
    /\ repos = <<>> /\ all_file_changes = <<>>
    /\ weeks = 0 /\ top_n = 0 /\ acc = <<>>

RunVelocity ==
    /\ pc = "start"
    /\ pc' = "done"
    /\ result' = compute_code_velocity(all_commits)
    /\ UNCHANGED inputs

NextVelocity == RunVelocity

SpecVelocity == InitVelocity /\ [][NextVelocity]_vars

\* the calendar weeks (Monday-based week numbers) that hold a commit
CommitWeeks(commits) ==
    {LocalDate(commits[i].timestamp) \div 7 : i \in DOMAIN commits}

\* the weeks of W that have at least lo and at most hi weeks of W after them
WeeksBack(W, lo, hi) ==
    {w \in W : LET later == Cardinality({v \in W : v > w})
               IN  lo <= later /\ later <= hi}

CommitsIn(commits, W) ==
    Cardinality({i \in DOMAIN commits : LocalDate(commits[i].timestamp) \div 7 \in W})

RecentTotal(commits) == CommitsIn(commits, WeeksBack(CommitWeeks(commits), 0, 3))

PriorTotal(commits) == CommitsIn(commits, WeeksBack(CommitWeeks(commits), 4, 7))

\* C9: with fewer than 8 distinct ISO weeks the trend is "stable"; with 8 or
\* more, for the ratio of the commit total of the most recent 4 weeks to
\* that of the 4 weeks before them, the trend is "up" iff ratio >= 1.15,
\* "down" iff ratio <= 0.85, and "stable" otherwise.
C9_TrendClassification ==
    pc = "done" =>
        LET W == CommitWeeks(all_commits)
            r == RecentTotal(all_commits)
            p == PriorTotal(all_commits)
        IN  IF Cardinality(W) < 8 THEN result.trend = "stable"
            ELSE /\ result.trend = "up" <=> 100 * r >= 115 * p
                 /\ result.trend = "down" <=> 100 * r <= 85 * p
                 /\ result.trend = "stable" <=>
                        (100 * r < 115 * p /\ 100 * r > 85 * p)

\* nine weeks, one week apart each, 23 commits against 20: exactly 1.15
C9_Witness ==
    /\ pc = "done"
    /\ Cardinality(CommitWeeks(all_commits)) = 9
    /\ ~(\E w \in CommitWeeks(all_commits) : w + 1 \in CommitWeeks(all_commits))
    /\ RecentTotal(all_commits) = 23
    /\ PriorTotal(all_commits) = 20
    /\ result.trend = "up"

(***************************************************************************)
(* compute_file_hotspots.  A str that is formatted is the sequence of its  *)
(* characters.                                                             *)
(***************************************************************************)
FileHotspot(path, churn, touches) ==
    [path |-> path, churn |-> churn, touches |-> touches]

\* f"{repo.name}/{fc.path}"
full_path(repo, fc) == repo.name \o <<"/">> \o fc.path

\* d[k] of a defaultdict(set)
GetSet(d, k) ==
    IF HasKey(d, k) THEN d[CHOOSE i \in DOMAIN d : d[i][1] = k][2] ELSE {}

\* d[k].add(x) that keeps one element per call
SetAddRecord(d, k, x) ==
    IF HasKey(d, k)
    THEN [i \in DOMAIN d |->
            IF d[i][1] = k
            THEN <<k, d[i][2] \cup {<<x, Cardinality(d[i][2])>>}>>
            ELSE d[i]]
    ELSE Append(d, <<k, {<<x, 0>>}>>)

\* d[k].add(x) on a defaultdict(set)
SetAdd(d, k, x) ==
    IF HasKey(d, k)
    THEN [i \in DOMAIN d |-> IF d[i][1] = k THEN <<k, d[i][2] \cup {x}>> ELSE d[i]]
    ELSE Append(d, <<k, {x}>>)

\* the body of the inner loop, lines 469-471
HotspotStep(maps, repo, fc) ==
    [churn_map |-> CounterAdd(maps.churn_map, full_path(repo, fc),
                              fc.added + fc.removed),
     touch_map |-> SetAdd(maps.touch_map, full_path(repo, fc), fc.hash)]

\* for fc in repo.file_changes, from index j on
RECURSIVE HotspotChanges(_, _, _)
HotspotChanges(maps, repo, j) ==
    IF j > Len(repo.file_changes) THEN maps
    ELSE HotspotChanges(HotspotStep(maps, repo, repo.file_changes[j]), repo, j + 1)

\* for repo in repos, from index i on
RECURSIVE HotspotRepos(_, _, _)
HotspotRepos(maps, rs, i) ==
    IF i > Len(rs) THEN maps
    ELSE HotspotRepos(HotspotChanges(maps, rs[i], 1), rs, i + 1)

\* a hotspot put into a list sorted by churn, descending, behind its equals
RECURSIVE InsertByChurn(_, _)
InsertByChurn(s, h) ==
    IF s = <<>> THEN <<h>>
    ELSE IF Head(s).churn >= h.churn THEN <<Head(s)>> \o InsertByChurn(Tail(s), h)
    ELSE <<h>> \o s

\* a list left in the order it was built in
KeepOrder(hotspots) == hotspots

\* hotspots.sort(key=lambda h: h.churn, reverse=True): stable
RECURSIVE SortByChurn(_)
SortByChurn(hotspots) ==
    IF hotspots = <<>> THEN <<>>
    ELSE InsertByChurn(SortByChurn(SubSeq(hotspots, 1, Len(hotspots) - 1)),
                       hotspots[Len(hotspots)])

\* s[:n]: the first n items, or all but the last -n when n is negative
Slice(s, n) ==
    IF n >= 0 THEN SubSeq(s, 1, Min(n, Len(s)))
    ELSE SubSeq(s, 1, Max(Len(s) + n, 0))

compute_file_hotspots(rs, n) ==
    LET maps == HotspotRepos([churn_map |-> <<>>, touch_map |-> <<>>], rs, 1)
        hotspots ==
            [i \in DOMAIN maps.churn_map |->
                FileHotspot(maps.churn_map[i][1], maps.churn_map[i][2],
                            Cardinality(GetSet(maps.touch_map, maps.churn_map[i][1])))]
    IN  Slice(SortByChurn(hotspots), n)

(***************************************************************************)
(* The hotspots of every bounded repo list: up to MaxRepos repos holding   *)
(* up to MaxHotChanges FileChanges between them.  The first repo is named  *)
(* "r", each later one "r" or "q", so two checkouts of one name occur;     *)
(* repo i lies in its own directory.  A commit may touch a file once per   *)
(* repo, twice in one repo, or two files.                                  *)
(***************************************************************************)
HotFileChanges ==
    {FileChange("h1", Naive(250), <<"f">>, ".py", 1, 0),
     FileChange("h2", Naive(251), <<"f">>, ".py", 2, 3),
     FileChange("h1", Naive(250), <<"s", "/", "f">>, ".py", 2, 3),
     FileChange("h2", Naive(251), <<"s", "/", "f">>, ".py", 0, 2)}

RepoNames == {<<"r">>, <<"q">>}

RepoDirs == <<"a", "b", "c", "d">>

\* where a list of k records is cut into the lists of n repos
ListCuts(n, k) ==
    {c \in [1..(n - 1) -> 0..k] : \A i \in 1..(n - 2) : c[i] <= c[i + 1]}

HotRepoList(fl, cuts, names) ==
    [i \in DOMAIN names |->
        RepoInfo(<<"/", RepoDirs[i], "/">> \o names[i], names[i], 0, None, FALSE,
                 0, FALSE, <<>>,
                 SubSeq(fl, (IF i = 1 THEN 0 ELSE cuts[i - 1]) + 1,
                        IF i = Len(names) THEN Len(fl) ELSE cuts[i]))]

InitHotspots ==
    /\ pc = "start"
    /\ now = 250
    /\ localOff = 2
    /\ \E n \in 0..MaxRepos, k \in 0..MaxHotChanges :
          /\ n = 0 => k = 0
          /\ \E fl \in [1..k -> HotFileChanges], cuts \in ListCuts(n, k),
                names \in {nm \in [1..n -> RepoNames] : n = 0 \/ nm[1] = <<"r">>} :
                repos = HotRepoList(fl, cuts, names)
    /\ top_n \in (0 - 1)..MaxTopN
    /\ result = <<>>
    /\ all_commits = <<>> /\ all_file_changes = <<>>
    /\ weeks = 0 /\ acc = <<>>

RunHotspots ==
    /\ pc = "start"
    /\ pc' = "done"
    /\ result' = compute_file_hotspots(repos, top_n)
    /\ UNCHANGED inputs

NextHotspots == RunHotspots

SpecHotspots == InitHotspots /\ [][NextHotspots]_vars

\* the FileChange records of a repo list, as <<repo index, change index>>
HotRecords(rs) ==
    UNION {{<<i, j>> : j \in DOMAIN rs[i].file_changes} : i \in DOMAIN rs}

RecordKey(rs, ij) == full_path(rs[ij[1]], rs[ij[1]].file_changes[ij[2]])

RecordsOf(rs, key) == {ij \in HotRecords(rs) : RecordKey(rs, ij) = key}

HotKeys(rs) == {RecordKey(rs, ij) : ij \in HotRecords(rs)}

RECURSIVE ChurnOf(_, _)
ChurnOf(rs, S) ==
    IF S = {} THEN 0
    ELSE LET ij == CHOOSE x \in S : TRUE
             fc == rs[ij[1]].file_changes[ij[2]]
         IN  fc.added + fc.removed + ChurnOf(rs, S \ {ij})

HashesOf(rs, S) == {rs[ij[1]].file_changes[ij[2]].hash : ij \in S}

\* C7: every returned entry has the path "{repo name}/{file path}" of some
\* FileChange, its churn is the sum of added+removed over all the
\* FileChanges with that key, and its touches is the number of distinct
\* commit hashes among them, not the number of records.
C7_HotspotEntries ==
    pc = "done" =>
        \A n \in DOMAIN result :
            LET recs == RecordsOf(repos, result[n].path)
            IN  /\ recs # {}
                /\ result[n].churn = ChurnOf(repos, recs)
                /\ result[n].touches = Cardinality(HashesOf(repos, recs))

\* three records of the key r/f, two of them of one commit
C7_Witness ==
    /\ pc = "done"
    /\ \E n \in DOMAIN result :
          /\ result[n].path = <<"r", "/", "f">>
          /\ Cardinality(RecordsOf(repos, result[n].path)) = 3
          /\ result[n].touches = 2
          /\ result[n].churn = 7

\* C8: for top_n >= 0 the entries come in non-increasing order of churn,
\* there are exactly min(top_n, number of distinct keys) of them, and no
\* omitted key has a larger churn than a returned one.
C8_HotspotsTopN ==
    (pc = "done" /\ top_n >= 0) =>
        /\ \A i \in 1..(Len(result) - 1) : result[i].churn >= result[i + 1].churn
        /\ Len(result) = Min(top_n, Cardinality(HotKeys(repos)))
        /\ \A k \in HotKeys(repos) \ {result[i].path : i \in DOMAIN result} :
              \A i \in DOMAIN result :
                  ChurnOf(repos, RecordsOf(repos, k)) <= result[i].churn

\* three keys, the first one built with the least churn, and the top two
\* returned
C8_Witness ==
    /\ pc = "done"
    /\ top_n = 2
    /\ Cardinality(HotKeys(repos)) = 3
    /\ Len(result) = 2
    /\ result[1].churn > result[2].churn
    /\ full_path(repos[1], repos[1].file_changes[1])
           \notin {result[i].path : i \in DOMAIN result}

(***************************************************************************)
(* compute_focus_score                                                     *)
(***************************************************************************)
\* avg_repos_per_day is kept in tenths; "" is the empty sequence
FocusScore(avg_repos_per_day, most_focused_day, most_scattered_day, interpretation) ==
    [avg_repos_per_day |-> avg_repos_per_day,
     most_focused_day |-> most_focused_day,
     most_scattered_day |-> most_scattered_day,
     interpretation |-> interpretation]

\* FocusScore(): the defaults of the dataclass
FocusScoreDefault == FocusScore(0, <<>>, <<>>, "")

\* str(d) of a date, "YYYY-MM-DD", as the tuple of the numbers it shows, for
\* the dates 2024-12-01 .. 2025-03-31
str_date(d) ==
    IF d < 2 THEN <<2024, 12, 30 + d>>
    ELSE IF d <= 32 THEN <<2025, 1, d - 1>>
    ELSE IF d <= 60 THEN <<2025, 2, d - 32>>
    ELSE <<2025, 3, d - 60>>

\* for c in repo.commits, from index j on (lines 403-405)
RECURSIVE FocusCommitLoop(_, _, _)
FocusCommitLoop(day_repos, repo, j) ==
    IF j > Len(repo.commits) THEN day_repos
    ELSE FocusCommitLoop(
             SetAdd(day_repos, LocalDate(repo.commits[j].timestamp), repo.name),
             repo, j + 1)

\* for repo in repos, from index i on
RECURSIVE FocusRepoLoop(_, _, _)
FocusRepoLoop(day_repos, rs, i) ==
    IF i > Len(rs) THEN day_repos
    ELSE FocusRepoLoop(FocusCommitLoop(day_repos, rs[i], 1), rs, i + 1)

\* min(d, key=d.get) and max(d, key=d.get): the first key, in the order of
\* the dict, that has the least (the greatest) value
MinKey(d) ==
    d[CHOOSE i \in DOMAIN d :
        /\ \A j \in DOMAIN d : d[i][2] <= d[j][2]
        /\ \A j \in 1..(i - 1) : d[j][2] > d[i][2]][1]

MaxKey(d) ==
    d[CHOOSE i \in DOMAIN d :
        /\ \A j \in DOMAIN d : d[i][2] >= d[j][2]
        /\ \A j \in 1..(i - 1) : d[j][2] < d[i][2]][1]

\* the floats of the literals 2 and 5 that avg is compared with
Float_2 == FloatDiv(2, 1)

Float_5 == FloatDiv(5, 1)

compute_focus_score(rs) ==
    IF rs = <<>> THEN FocusScoreDefault
    ELSE LET day_repos == FocusRepoLoop(<<>>, rs, 1)
         IN  IF day_repos = <<>> THEN FocusScoreDefault
             ELSE LET repos_per_day ==
                          [i \in DOMAIN day_repos |->
                              <<day_repos[i][1], Cardinality(day_repos[i][2])>>]
                      avg == FloatDiv(SumSeq(Values(repos_per_day)),
                                      Len(repos_per_day))
                  IN  FocusScore(RoundTenths(avg),
                                 str_date(MinKey(repos_per_day)),
                                 str_date(MaxKey(repos_per_day)),
                                 IF FloatLeq(avg, Float_2) THEN "deep focus"
                                 ELSE IF FloatLeq(avg, Float_5) THEN "balanced"
                                 ELSE "scattered")

(***************************************************************************)
(* The focus score of every bounded repo list: up to MaxRepos repos        *)
(* holding up to MaxFocusCommits commits between them, on three local      *)
(* dates, named as the repos of the hotspots are.                          *)
(***************************************************************************)
FocusCommits ==
    {Commit("c1", Naive(9 * 24 + 10), 1, 0),
     Commit("c2", Naive(10 * 24 + 10), 2, 3),
     Commit("c3", Aware(10 * 24 + 23, 0), 0, 1)}

FocusRepoList(cl, cuts, names) ==
    [i \in DOMAIN names |->
        RepoInfo(<<"/", RepoDirs[i], "/">> \o names[i], names[i], 0, None, FALSE,
                 0, FALSE,
                 SubSeq(cl, (IF i = 1 THEN 0 ELSE cuts[i - 1]) + 1,
                        IF i = Len(names) THEN Len(cl) ELSE cuts[i]),
                 <<>>)]

InitFocus ==
    /\ pc = "start"
    /\ now = 250
    /\ localOff = 2
    /\ \E n \in 0..MaxRepos, k \in 0..MaxFocusCommits :
          /\ n = 0 => k = 0
          /\ \E cl \in [1..k -> FocusCommits], cuts \in ListCuts(n, k),
                names \in {nm \in [1..n -> RepoNames] : n = 0 \/ nm[1] = <<"r">>} :
                repos = FocusRepoList(cl, cuts, names)
    /\ result = FocusScoreDefault
    /\ all_commits = <<>> /\ all_file_changes = <<>>
    /\ weeks = 0 /\ top_n = 0 /\ acc = <<>>

RunFocus ==
    /\ pc = "start"
    /\ pc' = "done"
    /\ result' = compute_focus_score(repos)
    /\ UNCHANGED inputs

NextFocus == RunFocus

SpecFocus == InitFocus /\ [][NextFocus]_vars

\* the local dates that hold a commit of some repo of the list
FocusDates(rs) ==
    UNION {{LocalDate(rs[i].commits[j].timestamp) : j \in DOMAIN rs[i].commits} :
           i \in DOMAIN rs}

\* the entries of the list that have a commit on date d
ReposOn(rs, d) ==
    {i \in DOMAIN rs :
        \E j \in DOMAIN rs[i].commits : LocalDate(rs[i].commits[j].timestamp) = d}

RECURSIVE SumReposOn(_, _)
SumReposOn(rs, D) ==
    IF D = {} THEN 0
    ELSE LET d == CHOOSE x \in D : TRUE
         IN  Cardinality(ReposOn(rs, d)) + SumReposOn(rs, D \ {d})

\* C10: avg_repos_per_day is the mean, over the local dates with a commit,
\* of the number of distinct RepoInfo entries (also those of one name) that
\* have a commit on the date; a single repo gives 1.0 and "deep focus".
C10_DistinctRepoEntriesPerDate ==
    (pc = "done" /\ FocusDates(repos) # {}) =>
        /\ result.avg_repos_per_day =
               RoundTenths(FloatDiv(SumReposOn(repos, FocusDates(repos)),
                                    Cardinality(FocusDates(repos))))
        /\ Len(repos) = 1 =>
               /\ result.avg_repos_per_day = 10
               /\ result.interpretation = "deep focus"

(***************************************************************************)
(* compute_repo_rankings                                                   *)
(***************************************************************************)
RepoRanking(name, path, commits, primary_language, health_score, lines_added, lines_removed, last_commit) ==
    [name |-> name, path |-> path, commits |-> commits,
     primary_language |-> primary_language, health_score |-> health_score,
     lines_added |-> lines_added, lines_removed |-> lines_removed,
     last_commit |-> last_commit]

\* a lookup that passes an unknown extension on without its dot
RankingLanguageNoDot(ext) ==
    IF ext \in DOMAIN EXT_MAP THEN EXT_MAP[ext]
    ELSE IF ext = ".proto" THEN "proto" ELSE ext

\* EXT_MAP.get(fc.ext, fc.ext) of line 214
RankingLanguage(ext) == IF ext \in DOMAIN EXT_MAP THEN EXT_MAP[ext] ELSE ext

\* the loop of lines 213-215 from index i on
RECURSIVE RankingCounts(_, _, _)
RankingCounts(fcs, i, ext_counts) ==
    IF i > Len(fcs) THEN ext_counts
    ELSE RankingCounts(fcs, i + 1,
             CounterAdd(ext_counts, RankingLanguage(fcs[i].ext),
                        fcs[i].added + fcs[i].removed))

\* the one-character placeholder of line 216, the dash U+2014
NoLanguage == "(U+2014)"

\* ext_counts.most_common(1)[0][0] if ext_counts else the placeholder
PrimaryLanguage(fcs) ==
    LET ext_counts == RankingCounts(fcs, 1, <<>>)
    IN  IF ext_counts = <<>> THEN NoLanguage ELSE most_common(ext_counts)[1][1]

\* the RepoRanking of lines 218-231
RankingOf(repo) ==
    RepoRanking(repo.name, repo.path, Len(repo.commits),
                PrimaryLanguage(repo.file_changes),
                compute_health_score(repo),
                SumSeq([i \in DOMAIN repo.commits |-> repo.commits[i].insertions]),
                SumSeq([i \in DOMAIN repo.commits |-> repo.commits[i].deletions]),
                repo.last_commit)

\* a ranking put into the sorted list in front of its equals
RECURSIVE InsertBeforeEquals(_, _)
InsertBeforeEquals(s, r) ==
    IF s = <<>> THEN <<r>>
    ELSE IF Head(s).commits > r.commits THEN <<Head(s)>> \o InsertBeforeEquals(Tail(s), r)
    ELSE <<r>> \o s

\* a ranking put at the end of the list, whatever its commits
InsertAtEnd(s, r) == Append(s, r)

\* a ranking put into a list sorted by commits, descending, behind its equals
RECURSIVE InsertByCommits(_, _)
InsertByCommits(s, r) ==
    IF s = <<>> THEN <<r>>
    ELSE IF Head(s).commits >= r.commits THEN <<Head(s)>> \o InsertByCommits(Tail(s), r)
    ELSE <<r>> \o s

\* rankings.sort(key=lambda r: r.commits, reverse=True): stable
RECURSIVE SortByCommits(_)
SortByCommits(rankings) ==
    IF rankings = <<>> THEN <<>>
    ELSE InsertByCommits(SortByCommits(SubSeq(rankings, 1, Len(rankings) - 1)),
                         rankings[Len(rankings)])

compute_repo_rankings(rs) == SortByCommits([i \in DOMAIN rs |-> RankingOf(rs[i])])

(***************************************************************************)
(* compute_activity_patterns                                               *)
(***************************************************************************)
\* the outcome of a call that raises exception e
Raise(e) == [raised |-> e]

DAYS == <<"Monday", "Tuesday", "Wednesday", "Thursday", "Friday", "Saturday", "Sunday">>

ActivityPattern(busiest_day, busiest_hour, avg_commits_per_day, commits_by_hour, commits_by_dow) ==
    [busiest_day |-> busiest_day, busiest_hour |-> busiest_hour,
     avg_commits_per_day |-> avg_commits_per_day,
     commits_by_hour |-> commits_by_hour, commits_by_dow |-> commits_by_dow]

\* ActivityPattern(): the defaults of the dataclass (the average in tenths)
ActivityPatternDefault ==
    ActivityPattern("", 0, 0, [h \in 1..24 |-> 0], [d \in 1..7 |-> 0])

\* the wall-clock hours of c.timestamp.astimezone(), or of a naive timestamp
LocalWall(ts) == IF ts.aware THEN ts.wall - ts.off + localOff ELSE ts.wall

\* xs.index(max(xs)), counted from 1: the first place of the greatest item
IndexOfMax(xs) ==
    CHOOSE i \in DOMAIN xs :
        /\ \A j \in DOMAIN xs : xs[j] <= xs[i]
        /\ \A j \in 1..(i - 1) : xs[j] < xs[i]

\* a span without the "or 1"
ActivitySpanRaw(dates) == today - (CHOOSE d \in dates : \A e \in dates : d <= e)

\* (date.today() - min(dates)).days or 1
ActivitySpan(dates) ==
    LET days == today - (CHOOSE d \in dates : \A e \in dates : d <= e)
    IN  IF days = 0 THEN 1 ELSE days

\* round(n / span, 1) in tenths; a negative span gives a negative average,
\* which rounds as its absolute value does
ActivityAverage(n, span) ==
    IF span > 0 THEN RoundTenths(FloatDiv(n, span))
    ELSE 0 - RoundTenths(FloatDiv(n, 0 - span))

\* lines 242-270: the counts, the busiest day and hour and the average;
\* n / span raises ZeroDivisionError on a span of 0
ActivityOf(commits) ==
    LET by_hour == [h \in 1..24 |->
                       Cardinality({i \in DOMAIN commits :
                                       LocalWall(commits[i].timestamp) % 24 = h - 1})]
        by_dow  == [d \in 1..7 |->
                       Cardinality({i \in DOMAIN commits :
                                       weekday(LocalDate(commits[i].timestamp)) = d - 1})]
        dates   == CommitDates(commits)
    IN  IF dates # {} /\ ActivitySpan(dates) = 0 THEN Raise("ZeroDivisionError")
        ELSE ActivityPattern(DAYS[IndexOfMax(by_dow)], IndexOfMax(by_hour) - 1,
                             IF dates # {}
                             THEN ActivityAverage(Len(commits), ActivitySpan(dates))
                             ELSE 0,
                             by_hour, by_dow)

\* the function without its guard for an empty commit list
ActivityPatternsUnguarded(commits) == ActivityOf(commits)

compute_activity_patterns(commits) ==
    IF commits = <<>> THEN ActivityPatternDefault ELSE ActivityOf(commits)

(***************************************************************************)
(* compute_language_evolution                                              *)
(***************************************************************************)
LanguageEvolution(monthly, top_languages) ==
    [monthly |-> monthly, top_languages |-> top_languages]

\* f"{d.year}-{d.month:02d}": the year, then the month's two decimal digits
MonthKey(ts) ==
    LET ymd == str_date(LocalWall(ts) \div 24)
    IN  <<ymd[1], ymd[2] \div 10, ymd[2] % 10>>

\* a lookup that shows every YAML file under the extension .yml
EvolutionLanguageYml(ext) ==
    IF ext \in {".yaml", ".yml"} THEN ".yml"
    ELSE IF ext \in DOMAIN EXT_MAP THEN EXT_MAP[ext] ELSE ext

\* EXT_MAP.get(fc.ext, fc.ext) of line 338
EvolutionLanguage(ext) == IF ext \in DOMAIN EXT_MAP THEN EXT_MAP[ext] ELSE ext

\* monthly[key][lang] += n on a defaultdict of defaultdict(int)
MonthlyAdd(monthly, key, lang, n) ==
    IF HasKey(monthly, key)
    THEN [i \in DOMAIN monthly |->
            IF monthly[i][1] = key
            THEN <<key, CounterAdd(monthly[i][2], lang, n)>>
            ELSE monthly[i]]
    ELSE Append(monthly, <<key, <<<<lang, n>>>>>>)

\* the loop of lines 335-339 from index i on
RECURSIVE MonthlyLoop(_, _, _)
MonthlyLoop(fcs, i, monthly) ==
    IF i > Len(fcs) THEN monthly
    ELSE MonthlyLoop(fcs, i + 1,
             MonthlyAdd(monthly, MonthKey(fcs[i].timestamp),
                        EvolutionLanguage(fcs[i].ext),
                        fcs[i].added + fcs[i].removed))

\* sorted(monthly.items()): the keys are distinct, so they alone decide
SortMonthly(monthly) ==
    LET keys == SortKeys({monthly[i][1] : i \in DOMAIN monthly})
    IN  [j \in DOMAIN keys |->
            monthly[CHOOSE i \in DOMAIN monthly : monthly[i][1] = keys[j]]]

\* lang_totals[lang] += lines for the items of one month, from index i on
RECURSIVE AddMonth(_, _, _)
AddMonth(lang_totals, month_langs, i) ==
    IF i > Len(month_langs) THEN lang_totals
    ELSE AddMonth(CounterAdd(lang_totals, month_langs[i][1], month_langs[i][2]),
                  month_langs, i + 1)

\* the loop of lines 344-346 from month m on
RECURSIVE LangTotals(_, _, _)
LangTotals(sorted_monthly, m, lang_totals) ==
    IF m > Len(sorted_monthly) THEN lang_totals
    ELSE LangTotals(sorted_monthly, m + 1,
                    AddMonth(lang_totals, sorted_monthly[m][2], 1))

\* every language of lang_totals, with no cut at 8
TopLanguagesUncut(lang_totals) == Keys(most_common(lang_totals))

\* [lang for lang, _ in lang_totals.most_common(8)]
TopLanguages(lang_totals) ==
    LET ranked == Keys(most_common(lang_totals))
    IN  SubSeq(ranked, 1, Min(8, Len(ranked)))

compute_language_evolution(fcs) ==
    IF fcs = <<>> THEN LanguageEvolution(<<>>, <<>>)
    ELSE LET sorted_monthly == SortMonthly(MonthlyLoop(fcs, 1, <<>>))
         IN  LanguageEvolution(sorted_monthly,
                               TopLanguages(LangTotals(sorted_monthly, 1, <<>>)))

(***************************************************************************)
(* compute_workday_split on a whole list                                   *)
(***************************************************************************)
\* the loop of lines 441-449 from index i on
RECURSIVE SplitFold(_, _, _)
SplitFold(commits, i, a) ==
    IF i > Len(commits) THEN a
    ELSE SplitFold(commits, i + 1, SplitStep(a, commits[i]))

compute_workday_split(commits) ==
    IF commits = <<>> THEN WorkdaySplit(0, 0, 0, 0, 0, 0)
    ELSE SplitResult(SplitFold(commits, 1, SplitLocals))

(***************************************************************************)
(* build_analytics, statement by statement.  repos is the caller's list,   *)
(* all_commits and all_file_changes are the two local lists, acc.i is the  *)
(* place of the for loop.  The caller calls twice in a row on the same     *)
(* list: acc.call counts the calls and acc.first keeps what the first call *)
(* returned.                                                               *)
(***************************************************************************)
DefaultWeeks == 52

DefaultTopN == 15

Analytics(total_repos, total_commits, total_languages, streaks, heatmap, languages, repo_rankings, activity, language_evolution, code_velocity, focus_score, workday_split, file_hotspots) ==
    [total_repos |-> total_repos, total_commits |-> total_commits,
     total_languages |-> total_languages, streaks |-> streaks,
     heatmap |-> heatmap, languages |-> languages,
     repo_rankings |-> repo_rankings, activity |-> activity,
     language_evolution |-> language_evolution,
     code_velocity |-> code_velocity, focus_score |-> focus_score,
     workday_split |-> workday_split, file_hotspots |-> file_hotspots]

\* lines 486-487 where all_commits is the commits list of the first repo
\* instead of a list of its own: extending it extends the caller's list
BuildExtendAliased(rs, ac, afc, i) ==
    [repos |-> [rs EXCEPT ![1].commits = rs[1].commits \o rs[i].commits],
     all_commits |-> rs[1].commits \o rs[i].commits,
     all_file_changes |-> afc \o rs[i].file_changes]

\* lines 486-487: the two extend() calls write to the lists made in lines
\* 483-484 and to nothing of the caller's
BuildExtend(rs, ac, afc, i) ==
    [repos |-> rs,
     all_commits |-> ac \o rs[i].commits,
     all_file_changes |-> afc \o rs[i].file_changes]

\* lines 489-505; an aggregator that raises makes the call raise
BuildReturn(rs, ac, afc) ==
    LET languages == compute_languages(afc)
        activity  == compute_activity_patterns(ac)
    IN  IF "raised" \in DOMAIN activity THEN activity
        ELSE Analytics(Len(rs), Len(ac), Len(languages),
                       compute_streaks(ac),
                       compute_heatmap(ac, DefaultWeeks),
                       languages,
                       compute_repo_rankings(rs),
                       activity,
                       compute_language_evolution(afc),
                       compute_code_velocity(ac),
                       compute_focus_score(rs),
                       compute_workday_split(ac),
                       compute_file_hotspots(rs, DefaultTopN))

(***************************************************************************)
(* The repo lists given to build_analytics: up to MaxRepos repos holding   *)
(* up to MaxBuildRecords commits and FileChanges between them, no record   *)
(* twice.  The first repo is named "r", the second "r" or "q", the others  *)
(* "q".  A repo's other fields are what a scan of such a repo finds.       *)
(***************************************************************************)
\* a commit of yesterday morning, a zone-aware one of late yesterday evening
\* that is today here, and one dated tomorrow; a YAML file changed this
\* month and a file of an unlisted extension changed last month by as many
\* lines
BuildRecords ==
    {Commit("c1", Naive((today - 1) * 24 + 10), 1, 0),
     Commit("c2", Aware((today - 1) * 24 + 23, 0), 2, 3),
     Commit("c3", Naive((today + 1) * 24 + 9), 0, 1),
     FileChange("c1", Naive((today - 1) * 24 + 10), <<"f">>, ".yml", 2, 3),
     FileChange("c0", Naive(30), <<"g">>, ".proto", 5, 0)}

IsCommit(rec) == "insertions" \in DOMAIN rec

IsFileChange(rec) == "ext" \in DOMAIN rec

BuildRepo(i, name, recs) ==
    LET commits == SelectSeq(recs, IsCommit)
    IN  RepoInfo(<<"/", RepoDirs[i], "/">> \o name, name,
                 IF commits = <<>> THEN 0 ELSE 1,
                 IF commits = <<>> THEN None ELSE Some(commits[1].timestamp),
                 FALSE, Len(commits), FALSE,
                 commits, SelectSeq(recs, IsFileChange))

BuildRepoList(rl, cuts, names) ==
    [i \in DOMAIN names |->
        BuildRepo(i, names[i],
                  SubSeq(rl, (IF i = 1 THEN 0 ELSE cuts[i - 1]) + 1,
                         IF i = Len(names) THEN Len(rl) ELSE cuts[i]))]

InitBuild ==
    /\ pc = "entry"
    /\ now = 298
    /\ localOff = 2
    /\ \E n \in 0..MaxRepos, k \in 0..MaxBuildRecords :
          /\ n = 0 => k = 0
          /\ \E rl \in [1..k -> BuildRecords], cuts \in ListCuts(n, k),
                names \in [1..n -> RepoNames] :
                /\ \A i \in 1..n : i # 2 => names[i] = (IF i = 1 THEN <<"r">> ELSE <<"q">>)
                /\ \A a, b \in 1..k : a # b => rl[a] # rl[b]
                /\ repos = BuildRepoList(rl, cuts, names)
    /\ all_commits = <<>> /\ all_file_changes = <<>>
    /\ acc = [i |-> 1, call |-> 1, first |-> <<>>]
    /\ result = <<>>
    /\ weeks = DefaultWeeks /\ top_n = DefaultTopN

\* lines 483-484
BuildEnter ==
    /\ pc = "entry"
    /\ pc' = "loop"
    /\ all_commits' = <<>>
    /\ all_file_changes' = <<>>
    /\ acc' = [acc EXCEPT !.i = 1]
    /\ UNCHANGED <<now, localOff, repos, weeks, top_n, result>>

\* for repo in repos: one pass of lines 486-487
BuildLoop ==
    /\ pc = "loop"
    /\ acc.i <= Len(repos)
    /\ LET after == BuildExtend(repos, all_commits, all_file_changes, acc.i)
       IN  /\ repos' = after.repos
           /\ all_commits' = after.all_commits
           /\ all_file_changes' = after.all_file_changes
    /\ acc' = [acc EXCEPT !.i = @ + 1]
    /\ UNCHANGED <<pc, now, localOff, weeks, top_n, result>>

\* lines 489-505
BuildAggregate ==
    /\ pc = "loop"
    /\ acc.i > Len(repos)
    /\ pc' = IF acc.call = 1 THEN "returned" ELSE "done"
    /\ result' = BuildReturn(repos, all_commits, all_file_changes)
    /\ UNCHANGED <<now, localOff, repos, all_commits, all_file_changes, weeks,
                   top_n, acc>>

\* the caller keeps the first Analytics and calls again on the same list
BuildCallAgain ==
    /\ pc = "returned"
    /\ pc' = "entry"
    /\ acc' = [acc EXCEPT !.call = 2, !.first = result]
    /\ UNCHANGED <<now, localOff, repos, all_commits, all_file_changes, weeks,
                   top_n, result>>

NextBuild == BuildEnter \/ BuildLoop \/ BuildAggregate \/ BuildCallAgain

SpecBuild == InitBuild /\ [][NextBuild]_vars

\* a call of build_analytics has returned
Returned == pc \in {"returned", "done"}

C12_InputsUnchanged == [][repos' = repos]_vars

\* a call has returned on two repos that hold commits and file changes
C12_Witness ==
    /\ Returned
    /\ Len(repos) = 2
    /\ repos[1].commits # <<>>
    /\ repos[2].file_changes # <<>>
    /\ result.total_commits = Len(repos[1].commits) + Len(repos[2].commits)

ZeroHeatmap == [r \in 1..7 |-> [w \in 1..DefaultWeeks |-> 0]]

\* the ranking of the repo at `path`
RankingAt(rankings, path) ==
    rankings[CHOOSE i \in DOMAIN rankings : rankings[i].path = path]

\* C13: degenerate input gives the zero / empty defaults and no call raises:
\* no commits give streaks 0/0, an all-zero heatmap of 7 rows, the empty
\* activity pattern, the empty velocity with trend "stable", the empty
\* focus score and the zero workday split; no file changes give empty
\* languages, language evolution and hotspots; a repo with no commits, no
\* branches and no last_commit has health 0.
C13_DegenerateInputDefaults ==
    Returned =>
        /\ "raised" \notin DOMAIN result
        /\ result.total_repos = Len(repos)
        /\ Len(result.repo_rankings) = Len(repos)
        /\ all_commits = <<>> =>
              /\ result.total_commits = 0
              /\ result.streaks = Streaks(0, 0, 0)
              /\ result.heatmap = ZeroHeatmap
              /\ result.activity.busiest_day = ""
              /\ result.activity.avg_commits_per_day = 0
              /\ result.activity = ActivityPatternDefault
              /\ result.code_velocity = CodeVelocity(<<>>, <<>>, "stable", <<>>, 0)
              /\ result.focus_score = FocusScore(0, <<>>, <<>>, "")
              /\ result.workday_split = WorkdaySplit(0, 0, 0, 0, 0, 0)
        /\ all_file_changes = <<>> =>
              /\ result.total_languages = 0
              /\ result.languages = <<>>
              /\ result.language_evolution = LanguageEvolution(<<>>, <<>>)
              /\ result.file_hotspots = <<>>
        /\ \A i \in DOMAIN repos :
              (repos[i].commits = <<>> /\ repos[i].last_commit = None
                  /\ repos[i].branch_count = 0)
              => /\ RankingAt(result.repo_rankings, repos[i].path).health_score = 0
                 /\ RankingAt(result.repo_rankings, repos[i].path).commits = 0

\* two repos, one with nothing in it and one with file changes only
C13_Witness ==
    /\ Returned
    /\ Len(repos) = 2
    /\ all_commits = <<>>
    /\ repos[1].file_changes = <<>>
    /\ Len(repos[2].file_changes) = 2
    /\ result.heatmap = ZeroHeatmap
    /\ result.total_languages = 2

\* the language name the table gives an extension
TableLanguage(ext) == IF ext \in DOMAIN EXT_MAP THEN EXT_MAP[ext] ELSE ext

\* C17: an extension maps to the same language name in compute_languages,
\* compute_language_evolution and the primary language of
\* compute_repo_rankings, and an extension absent from the table is passed
\* through unchanged in all three.
C17_OneLanguageNamePerExtension ==
    /\ \A ext \in DOMAIN EXT_MAP \cup {".proto", "(no ext)"} :
          /\ RankingLanguage(ext) = Language(ext)
          /\ EvolutionLanguage(ext) = Language(ext)
          /\ ext \notin DOMAIN EXT_MAP => Language(ext) = ext
    /\ Returned =>
          LET langs == {TableLanguage(all_file_changes[i].ext) :
                           i \in DOMAIN all_file_changes}
              monthly == result.language_evolution.monthly
          IN  /\ Range(Keys(result.languages)) = langs
              /\ Range(result.language_evolution.top_languages) = langs
              /\ UNION {Range(Keys(monthly[m][2])) : m \in DOMAIN monthly} = langs
              /\ \A i \in DOMAIN repos :
                    RankingAt(result.repo_rankings, repos[i].path).primary_language
                        \in IF repos[i].file_changes = <<>> THEN {NoLanguage}
                            ELSE {TableLanguage(repos[i].file_changes[j].ext) :
                                     j \in DOMAIN repos[i].file_changes}

\* a repo whose only file has an unlisted extension, beside a YAML file
C17_Witness ==
    /\ Returned
    /\ Len(repos) = 2
    /\ Range(Keys(result.languages)) = {"YAML", ".proto"}
    /\ Range(result.language_evolution.top_languages) = {"YAML", ".proto"}
    /\ \E i \in DOMAIN result.repo_rankings :
          result.repo_rankings[i].primary_language = ".proto"

(***************************************************************************)
(* The parallel scan: _scan_all (cli.py) and HuntdApp.run_scan (tui.py)    *)
(* submit one scan_repo call per repository to a thread pool, gather the   *)
(* results as the workers finish and hand the list to build_analytics.     *)
(***************************************************************************)
MaxScanRepos == 2

max_workers == 8

\* a commit as git log reports it; get_commits keeps the author
LogCommit(h, author, ts, ins, dels) ==
    [hash |-> h, author |-> author, timestamp |-> ts,
     insertions |-> ins, deletions |-> dels]

\* a repository on disk: its directory, its branches and its whole history,
\* newest commit first
DiskRepo(i, log) ==
    [path |-> <<"/", RepoDirs[i], "/", "r">>, name |-> <<"r">>,
     branches |-> IF log = <<>> THEN 0 ELSE 1, log |-> log]

\* the histories a repository on disk may hold
DiskLogs ==
    {<<>>,
     <<LogCommit("c3", "Alice", Naive((today - 1) * 24 + 10), 1, 0),
       LogCommit("c2", "Bob", Naive((today - 1) * 24 + 9), 2, 3),
       LogCommit("c1", "Alice", Aware((today - 2) * 24 + 23, 0), 0, 1)>>}

\* find_repos: the sorted paths of the directories that hold a .git
find_repos(disk) == [i \in DOMAIN disk |-> disk[i].path]

\* the parameters scan_repo declares
ScanRepoParams == {"repo_path"}

\* get_repo_info, get_commits, get_file_stats on one repository
scan_repo(d) ==
    RepoInfo(d.path, d.name, d.branches,
             IF d.log = <<>> THEN None ELSE Some(d.log[1].timestamp),
             FALSE, Len(d.log), FALSE, d.log, <<>>)

\* scan_repo(p, since=..., until=..., author=...) as the pool runs it: a
\* keyword the function does not declare fails the call with TypeError
WorkerCall(d, kw) ==
    IF DOMAIN kw \subseteq ScanRepoParams \ {"repo_path"}
    THEN scan_repo(d)
    ELSE Raise("TypeError")

\* a future whose worker was handed to a thread, finished or not
FutureStarted(f) == f.state # "pending"

\* a future whose worker has finished with a result or an exception
FutureDone(f) == f.state = "done"

\* future.result(): the value the worker returned or the error it raised
FutureResult(f) == WorkerCall(acc.disk[f.index], acc.kw)

RECURSIVE BuildFrom(_, _, _, _)
BuildFrom(rs, ac, afc, i) ==
    IF i > Len(rs) THEN BuildReturn(rs, ac, afc)
    ELSE LET after == BuildExtend(rs, ac, afc, i)
         IN  BuildFrom(after.repos, after.all_commits, after.all_file_changes, i + 1)

build_analytics(rs) == BuildFrom(rs, <<>>, <<>>, 1)

InitScan ==
    /\ pc = "find"
    /\ now = 250
    /\ localOff = 2
    /\ repos = <<>>
    /\ all_commits = <<>> /\ all_file_changes = <<>>
    /\ weeks = DefaultWeeks /\ top_n = DefaultTopN
    /\ result = <<>>
    /\ \E n \in 0..MaxScanRepos :
       \E logs \in [1..n -> DiskLogs], ui \in {"cli", "tui"},
          author \in {None, Some("Alice")} :
          acc = [ui |-> ui,
                 disk |-> [i \in 1..n |-> DiskRepo(i, logs[i])],
                 kw |-> [since |-> None, until |-> None, author |-> author],
                 repo_paths |-> <<>>,
                 futures |-> <<>>,
                 taken |-> {}]

\* repo_paths = find_repos(scan_path); if not repo_paths: return
ScanFind ==
    /\ pc = "find"
    /\ acc' = [acc EXCEPT !.repo_paths = find_repos(acc.disk)]
    /\ pc' = IF find_repos(acc.disk) = <<>> THEN "done" ELSE "submit"
    /\ UNCHANGED <<now, localOff, repos, all_commits, all_file_changes, weeks,
                   top_n, result>>

\* executor.submit(scan_repo, p, since=since, until=until, author=author)
ScanSubmit ==
    /\ pc = "submit"
    /\ LET i == Len(acc.futures) + 1
       IN  /\ acc' = [acc EXCEPT !.futures =
                         Append(@, [index |-> i, path |-> acc.repo_paths[i],
                                    state |-> "pending"])]
           /\ pc' = IF i = Len(acc.repo_paths) THEN "as_completed" ELSE "submit"
    /\ UNCHANGED <<now, localOff, repos, all_commits, all_file_changes, weeks,
                   top_n, result>>

\* a pool thread picks up a queued call
WorkerStart ==
    /\ \E i \in DOMAIN acc.futures :
          /\ acc.futures[i].state = "pending"
          /\ Cardinality({j \in DOMAIN acc.futures :
                             acc.futures[j].state = "running"}) < max_workers
          /\ acc' = [acc EXCEPT !.futures[i].state = "running"]
    /\ UNCHANGED <<pc, now, localOff, repos, all_commits, all_file_changes,
                   weeks, top_n, result>>

\* the call returns or raises; the future keeps the outcome
WorkerFinish ==
    /\ \E i \in DOMAIN acc.futures :
          /\ acc.futures[i].state = "running"
          /\ acc' = [acc EXCEPT !.futures[i].state = "done"]
    /\ UNCHANGED <<pc, now, localOff, repos, all_commits, all_file_changes,
                   weeks, top_n, result>>

\* one round of: for future in as_completed(futures):
\*     try: repos.append(future.result())  except Exception: pass
ScanTake ==
    /\ pc = "as_completed"
    /\ \E i \in DOMAIN acc.futures :
          /\ i \notin acc.taken
          /\ FutureDone(acc.futures[i])
          /\ repos' = IF "raised" \in DOMAIN FutureResult(acc.futures[i])
                      THEN repos
                      ELSE Append(repos, FutureResult(acc.futures[i]))
          /\ acc' = [acc EXCEPT !.taken = @ \cup {i}]
          /\ pc' = IF acc.taken \cup {i} = DOMAIN acc.futures
                   THEN "shutdown" ELSE "as_completed"
    /\ UNCHANGED <<now, localOff, all_commits, all_file_changes, weeks, top_n,
                   result>>

\* leaving the with block: executor.shutdown(wait=True)
ScanShutdown ==
    /\ pc = "shutdown"
    /\ \A i \in DOMAIN acc.futures : FutureDone(acc.futures[i])
    /\ pc' = "scanned"
    /\ UNCHANGED <<now, localOff, repos, all_commits, all_file_changes, weeks,
                   top_n, acc, result>>

\* print_summary: repos = _scan_all(...); if not repos: return
\* run_scan goes on to build_analytics whatever the list holds
ScanAfter ==
    /\ pc = "scanned"
    /\ pc' = IF acc.ui = "cli" /\ repos = <<>> THEN "done" ELSE "build"
    /\ UNCHANGED <<now, localOff, repos, all_commits, all_file_changes, weeks,
                   top_n, acc, result>>

\* analytics = build_analytics(repos)
ScanBuild ==
    /\ pc = "build"
    /\ result' = build_analytics(repos)
    /\ pc' = "done"
    /\ UNCHANGED <<now, localOff, repos, all_commits, all_file_changes, weeks,
                   top_n, acc>>

NextScan ==
    \/ ScanFind
    \/ ScanSubmit
    \/ WorkerStart
    \/ WorkerFinish
    \/ ScanTake
    \/ ScanShutdown
    \/ ScanAfter
    \/ ScanBuild

SpecScan == InitScan /\ [][NextScan]_vars

\* the scan has left the with block
ScanOver == pc \in {"scanned", "build"} \/ (pc = "done" /\ acc.futures # <<>>)

\* the paths of the RepoInfo records gathered so far
GatheredPaths == {repos[i].path : i \in DOMAIN repos}

\* C14: when scan_repo raises for one repository the exception is swallowed
\* and that repository is left out of the list, while every other repository
\* is still scanned and its RepoInfo is in the list when the scan is over.
C14_OthersContributeWhenOneRaises ==
    ScanOver =>
        \A i \in DOMAIN acc.futures :
            "raised" \in DOMAIN FutureResult(acc.futures[i]) =>
                /\ acc.futures[i].path \notin GatheredPaths
                /\ \A j \in DOMAIN acc.futures \ {i} :
                      /\ FutureDone(acc.futures[j])
                      /\ "raised" \notin DOMAIN scan_repo(acc.disk[j])
                            => scan_repo(acc.disk[j]) \in Range(repos)

\* C15: build_analytics starts only when every repository found has a
\* submitted worker and every worker has finished, with a result or an
\* exception; none is queued or running while the aggregation runs or after.
C15_BuildAfterAllWorkersDone ==
    (pc = "build" \/ result # <<>>) =>
        /\ Len(acc.futures) = Len(acc.repo_paths)
        /\ \A i \in DOMAIN acc.futures :
              /\ acc.futures[i].state \notin {"pending", "running"}
              /\ i \in acc.taken

\* the aggregation is about to run after two workers finished
C15_Witness ==
    /\ pc = "build"
    /\ Len(acc.futures) = 2
    /\ \A i \in DOMAIN acc.futures : acc.futures[i].state = "done"

\* the commits of a log that an author filter keeps
MatchesAuthor(c, author) == author = None \/ c.author = author[1]

\* C16: scan_repo called with a since / until / author filter returns a
\* RepoInfo whose commits all match the filter, while total_commits and
\* branch_count are those of the whole history.
C16_FilteredScanKeepsWholeHistoryCounts ==
    \A i \in DOMAIN acc.futures :
        FutureDone(acc.futures[i]) =>
            LET info == FutureResult(acc.futures[i])
                d    == acc.disk[i]
            IN  /\ "raised" \notin DOMAIN info
                /\ \A k \in DOMAIN info.commits :
                      MatchesAuthor(info.commits[k], acc.kw.author)
                /\ Len(info.commits) =
                      Cardinality({k \in DOMAIN d.log :
                                      MatchesAuthor(d.log[k], acc.kw.author)})
                /\ info.total_commits = Len(d.log)
                /\ info.branch_count = d.branches

\* the local date of the earliest commit gathered
EarliestDate ==
    CHOOSE d \in {LocalDate(all_commits[i].timestamp) : i \in DOMAIN all_commits} :
        \A i \in DOMAIN all_commits : d <= LocalDate(all_commits[i].timestamp)

\* C22: for every non-empty commit list avg_commits_per_day is the commit
\* count divided by the days from the earliest local date to today, the
\* divisor never below 1, rounded to tenths; it is >= 0 and no division
\* error is raised, whether the earliest date is before, on or after today.
C22_AverageDivisorAtLeastOne ==
    (Returned /\ all_commits # <<>>) =>
        /\ "raised" \notin DOMAIN result
        /\ result.activity.avg_commits_per_day >= 0
        /\ result.activity.avg_commits_per_day =
              RoundTenths(FloatDiv(Len(all_commits), Max(1, today - EarliestDate)))

(***************************************************************************)
(* compute_repo_rankings over repo lists with equal commit counts and with *)
(* total_commits above the length of the commits list.                     *)
(***************************************************************************)
MaxRankRepos == 3

\* the commits lists a (filtered) repo may hold
RankCommitLists ==
    {<<>>,
     <<Commit("c1", Naive((today - 1) * 24 + 10), 1, 0)>>,
     <<Commit("c1", Naive((today - 1) * 24 + 10), 1, 0),
       Commit("c2", Naive((today - 2) * 24 + 9), 2, 3)>>}

InitRankings ==
    /\ pc = "start"
    /\ now = 250
    /\ localOff = 2
    /\ \E n \in 0..MaxRankRepos :
       \E cs \in [1..n -> RankCommitLists], whole \in [1..n -> BOOLEAN] :
          repos = [i \in 1..n |->
                      RepoInfo(<<"/", RepoDirs[i], "/", "r">>, <<"r">>, 0, None, FALSE,
                               IF whole[i] THEN Len(cs[i]) ELSE 100, FALSE,
                               cs[i], <<>>)]
    /\ result = <<>>
    /\ all_commits = <<>> /\ all_file_changes = <<>>
    /\ weeks = 0 /\ top_n = 0 /\ acc = <<>>

RunRankings ==
    /\ pc = "start"
    /\ pc' = "done"
    /\ result' = compute_repo_rankings(repos)
    /\ UNCHANGED inputs

NextRankings == RunRankings

SpecRankings == InitRankings /\ [][NextRankings]_vars

\* where the repo of a ranking stands in the input list
InputIndex(ranking) == CHOOSE i \in DOMAIN repos : repos[i].path = ranking.path

\* C23: compute_repo_rankings returns one RepoRanking per input repo,
\* ordered by len(repo.commits) descending with equal counts kept in input
\* order; commits is the length of the commits list, the health score is
\* taken from total_commits, and lines_added / lines_removed are the sums of
\* insertions / deletions over the repo's commits.
C23_RankingsOnePerRepoStableOrder ==
    pc = "done" =>
        /\ Len(result) = Len(repos)
        /\ {result[k].path : k \in DOMAIN result} = {repos[i].path : i \in DOMAIN repos}
        /\ \A k, l \in DOMAIN result :
              k < l =>
                 \/ result[k].commits > result[l].commits
                 \/ /\ result[k].commits = result[l].commits
                    /\ InputIndex(result[k]) < InputIndex(result[l])
        /\ \A k \in DOMAIN result :
              LET repo == repos[InputIndex(result[k])]
              IN  /\ result[k].commits = Len(repo.commits)
                  /\ result[k].health_score =
                        TableVolume(repo) + (IF repo.total_commits > 0 THEN 10 ELSE 0)
                  /\ result[k].lines_added =
                        Cardinality({i \in DOMAIN repo.commits : repo.commits[i].hash = "c1"})
                        + 2 * Cardinality({i \in DOMAIN repo.commits : repo.commits[i].hash = "c2"})
                  /\ result[k].lines_removed =
                        3 * Cardinality({i \in DOMAIN repo.commits : repo.commits[i].hash = "c2"})

\* three repos with 1, 2 and 1 commits, the last with a longer whole history
C23_Witness ==
    /\ pc = "done"
    /\ Len(repos) = 3
    /\ Len(repos[1].commits) = 1 /\ Len(repos[2].commits) = 2
    /\ Len(repos[3].commits) = 1 /\ repos[3].total_commits = 100
    /\ result[1].path = repos[2].path
    /\ result[2].path = repos[1].path
    /\ result[3].path = repos[3].path
    /\ result[3].commits = 1 /\ result[3].health_score = 30
    /\ result[1].lines_added = 3 /\ result[1].lines_removed = 3

(***************************************************************************)
(* find_repos (scanner.py): the walk over a directory tree.  A directory   *)
(* is the tuple of names leading to it from the root; tree.dirs holds the  *)
(* directories that exist, tree.git those that hold a .git directory.      *)
(***************************************************************************)
SKIP_DIRS ==
    {"node_modules", ".venv", "venv", "__pycache__", "target", "build",
     "dist", ".gradle", ".dart_tool", "vendor", ".next", ".nuxt",
     "bin", "obj", ".tox", ".mypy_cache", ".ruff_cache", ".pytest_cache",
     "site-packages", ".cargo", ".rustup", "Pods"}

\* the default of find_repos' max_depth parameter
DefaultMaxDepth == 6

\* d.name.startswith(".")
Hidden == {".a", ".gradle", ".venv"}

\* the subdirectories of a directory, .git aside
Subdirs(tree, path) ==
    {d \in tree.dirs : Len(d) = Len(path) + 1 /\ SubSeq(d, 1, Len(path)) = path}

\* a walk that goes on below a directory that holds .git
RECURSIVE WalkBelowRepos(_, _, _, _)
WalkBelowRepos(tree, path, depth, max_depth) ==
    IF depth > max_depth THEN {}
    ELSE (IF path \in tree.git THEN {path} ELSE {})
         \cup UNION {WalkBelowRepos(tree, d, depth + 1, max_depth) :
                        d \in {e \in Subdirs(tree, path) :
                                  e[Len(e)] \notin Hidden \cup SKIP_DIRS}}

\* _walk(path, depth): the repositories it appends
RECURSIVE walk(_, _, _, _)
walk(tree, path, depth, max_depth) ==
    IF depth > max_depth THEN {}
    ELSE IF path \in tree.git THEN {path}
    ELSE UNION {walk(tree, d, depth + 1, max_depth) :
                   d \in {e \in Subdirs(tree, path) :
                             e[Len(e)] \notin Hidden \cup SKIP_DIRS}}

\* the order of two names as strings
NameRank(n) == CASE n = ".a" -> 1 [] n = "a" -> 2 [] n = "dist" -> 3 [] OTHER -> 4

\* the order of two paths as strings: name by name, a prefix first
RECURSIVE PathLess(_, _)
PathLess(p, q) ==
    IF p = <<>> THEN q # <<>>
    ELSE IF q = <<>> THEN FALSE
    ELSE IF Head(p) = Head(q) THEN PathLess(Tail(p), Tail(q))
    ELSE NameRank(Head(p)) < NameRank(Head(q))

\* repos.sort()
RECURSIVE SortPaths(_)
SortPaths(S) ==
    IF S = {} THEN <<>>
    ELSE LET least == CHOOSE p \in S : \A q \in S \ {p} : PathLess(p, q)
         IN  <<least>> \o SortPaths(S \ {least})

find_repos_in(tree, max_depth) == SortPaths(walk(tree, <<>>, 0, max_depth))

\* the directories a tree may hold below its root
TreeUniverse ==
    {<<"a">>, <<"a", "a">>, <<"a", "a", "a">>, <<"a", ".a">>, <<"a", "dist">>,
     <<"dist">>, <<"dist", "a">>, <<".a">>}

MaxTreeDepth == 2

InitFind ==
    /\ pc = "start"
    /\ now = 250
    /\ localOff = 2
    /\ repos = <<>>
    /\ result = <<>>
    /\ all_commits = <<>> /\ all_file_changes = <<>>
    /\ weeks = 0 /\ top_n = 0
    /\ \E dirs \in SUBSET TreeUniverse :
          /\ \A d \in dirs : Len(d) > 1 => SubSeq(d, 1, Len(d) - 1) \in dirs
          /\ \E git \in SUBSET (dirs \cup {<<>>}),
                max_depth \in {MaxTreeDepth - 1, DefaultMaxDepth} :
                acc = [tree |-> [dirs |-> dirs \cup {<<>>}, git |-> git],
                       max_depth |-> max_depth]

RunFind ==
    /\ pc = "start"
    /\ pc' = "done"
    /\ result' = find_repos_in(acc.tree, acc.max_depth)
    /\ UNCHANGED inputs

NextFind == RunFind

SpecFind == InitFind /\ [][NextFind]_vars

\* q lies inside p
ProperDescendant(q, p) == Len(q) > Len(p) /\ SubSeq(q, 1, Len(p)) = p

\* C24: no path find_repos returns is a proper descendant of another path
\* it returns, and every path returned is a directory that holds .git.
C24_NoRepoInsideReturnedRepo ==
    pc = "done" =>
        /\ \A k, l \in DOMAIN result : ~ProperDescendant(result[k], result[l])
        /\ \A k \in DOMAIN result : result[k] \in acc.tree.git

\* a repository with a repository in a subdirectory: only the outer one
C24_Witness ==
    /\ pc = "done"
    /\ <<"a">> \in acc.tree.git
    /\ <<"a", "a">> \in acc.tree.git
    /\ <<>> \notin acc.tree.git
    /\ result = <<<<"a">>>>

(***************************************************************************)
(* get_file_stats (git.py): the loop over the lines of                     *)
(* git log --pretty=format:"%H %aI" --numstat.  A line is the record of    *)
(* what its text splits into: a blank line, a commit header (40 hex digits *)
(* and a timestamp text) or the tab-separated fields of a numstat line.    *)
(***************************************************************************)
MaxStatLines == 4

BlankLine == [kind |-> "blank"]

HeaderLine(hash, ts_text) == [kind |-> "header", hash |-> hash, ts_text |-> ts_text]

NumstatLine(added_str, removed_str, filepath) ==
    [kind |-> "numstat", tabs |-> <<added_str, removed_str, filepath>>]

\* datetime.fromisoformat(text): None stands for ValueError
fromisoformat(text) ==
    CASE text = "2025-01-01T10:00:00" -> Some(Naive(58 * 24 + 10))
      [] text = "2025-01-02T09:00:00+00:00" -> Some(Aware(59 * 24 + 9, 0))
      [] OTHER -> None

\* int(text): None stands for ValueError
int(text) ==
    CASE text = "0" -> Some(0)
      [] text = "3" -> Some(3)
      [] text = "12" -> Some(12)
      [] OTHER -> None

\* Path(filepath).suffix.lower() or "(no ext)"
ExtOf(filepath) ==
    CASE filepath = "a.py" -> ".py"
      [] filepath = "img.PNG" -> ".png"
      [] filepath = "README.MD" -> ".md"
      [] OTHER -> "(no ext)"

\* lines 134-140: a commit header replaces the current hash and timestamp
StatHeader(line, loc) ==
    [loc EXCEPT !.current_hash = Some(line.hash),
                !.current_ts = fromisoformat(line.ts_text)]

\* a numstat branch that forgets the current commit at a binary file
StatNumstatDropsCommit(line, loc) ==
    IF loc.current_hash = None \/ loc.current_ts = None THEN loc
    ELSE IF line.tabs[1] = "-" \/ line.tabs[2] = "-"
         THEN [loc EXCEPT !.current_hash = None]
    ELSE IF int(line.tabs[1]) = None \/ int(line.tabs[2]) = None THEN loc
    ELSE [loc EXCEPT !.changes =
             Append(@, FileChange(loc.current_hash[1], loc.current_ts[1],
                                  line.tabs[3], ExtOf(line.tabs[3]),
                                  int(line.tabs[1])[1], int(line.tabs[2])[1]))]

\* lines 143-161: a numstat line under a current commit
StatNumstat(line, loc) ==
    IF loc.current_hash = None \/ loc.current_ts = None THEN loc
    ELSE IF line.tabs[1] = "-" \/ line.tabs[2] = "-" THEN loc
    ELSE IF int(line.tabs[1]) = None \/ int(line.tabs[2]) = None THEN loc
    ELSE [loc EXCEPT !.changes =
             Append(@, FileChange(loc.current_hash[1], loc.current_ts[1],
                                  line.tabs[3], ExtOf(line.tabs[3]),
                                  int(line.tabs[1])[1], int(line.tabs[2])[1]))]

\* one round of the loop of lines 127-161
StatLine(line, loc) ==
    IF line.kind = "blank" THEN loc
    ELSE IF line.kind = "header" THEN StatHeader(line, loc)
    ELSE StatNumstat(line, loc)

\* the lines git may print
StatLines ==
    {BlankLine,
     HeaderLine("h1", "2025-01-01T10:00:00"),
     HeaderLine("h2", "2025-01-02T09:00:00+00:00"),
     NumstatLine("3", "0", "a.py"),
     NumstatLine("-", "-", "img.PNG"),
     NumstatLine("12", "3", "Makefile")}

InitFileStats ==
    /\ pc = "loop"
    /\ now = 250
    /\ localOff = 2
    /\ repos = <<>>
    /\ result = <<>>
    /\ all_commits = <<>> /\ all_file_changes = <<>>
    /\ weeks = 0 /\ top_n = 0
    /\ \E n \in 1..MaxStatLines :
       \E lines \in [1..n -> StatLines] :
          /\ lines[1].kind = "header"
          /\ acc = [lines |-> lines, i |-> 1,
                    loc |-> [changes |-> <<>>, current_hash |-> None,
                             current_ts |-> None]]

\* for line in output.split("\n"): ...
FileStatsLoop ==
    /\ pc = "loop"
    /\ acc.i <= Len(acc.lines)
    /\ acc' = [acc EXCEPT !.i = @ + 1, !.loc = StatLine(acc.lines[acc.i], acc.loc)]
    /\ UNCHANGED <<pc, now, localOff, repos, all_commits, all_file_changes, weeks,
                   top_n, result>>

\* return changes
FileStatsReturn ==
    /\ pc = "loop"
    /\ acc.i > Len(acc.lines)
    /\ pc' = "done"
    /\ result' = acc.loc.changes
    /\ UNCHANGED inputs

NextFileStats == FileStatsLoop \/ FileStatsReturn

SpecFileStats == InitFileStats /\ [][NextFileStats]_vars

\* the header line of the commit that line k belongs to
HeaderOf(k) ==
    acc.lines[CHOOSE j \in 1..k :
                 /\ acc.lines[j].kind = "header"
                 /\ \A m \in (j + 1)..k : acc.lines[m].kind # "header"]

\* numstat lines of text files
TextLine(k) == acc.lines[k].kind = "numstat" /\ acc.lines[k].tabs[1] # "-"

\* numstat lines of binary files
BinaryLine(k) ==
    /\ acc.lines[k].kind = "numstat"
    /\ (acc.lines[k].tabs[1] = "-" \/ acc.lines[k].tabs[2] = "-")

\* the indexes of the text-file lines, in order
TextLineIndexes == SelectSeq([k \in DOMAIN acc.lines |-> k], TextLine)

\* C25: get_file_stats emits no FileChange for a numstat line whose added or
\* removed field is "-" and no record with zero counts in its place; every
\* text-file line, those after a binary line of the same commit included,
\* is emitted with the hash and timestamp of its commit.
C25_BinaryLinesSkippedCommitKept ==
    pc = "done" =>
        /\ Len(result) = Len(TextLineIndexes)
        /\ \A j \in DOMAIN result :
              LET k == TextLineIndexes[j]
              IN  /\ result[j].hash = HeaderOf(k).hash
                  /\ result[j].timestamp =
                        (IF HeaderOf(k).hash = "h1" THEN Naive(58 * 24 + 10)
                         ELSE Aware(59 * 24 + 9, 0))
                  /\ result[j].path = acc.lines[k].tabs[3]
                  /\ <<result[j].added, result[j].removed>>
                        = (IF result[j].path = "a.py" THEN <<3, 0>> ELSE <<12, 3>>)
        /\ \A k \in DOMAIN acc.lines :
              BinaryLine(k) =>
                 \A j \in DOMAIN result : result[j].path # acc.lines[k].tabs[3]

\* a commit whose binary file is listed between two text files
C25_Witness ==
    /\ pc = "done"
    /\ Len(acc.lines) = 4
    /\ acc.lines[1] = HeaderLine("h2", "2025-01-02T09:00:00+00:00")
    /\ acc.lines[2] = NumstatLine("3", "0", "a.py")
    /\ BinaryLine(3)
    /\ acc.lines[4] = NumstatLine("12", "3", "Makefile")
    /\ Len(result) = 2
    /\ result[2].hash = "h2" /\ result[2].ext = "(no ext)"

\* C26: the Analytics of build_analytics counts each commit once in every
\* view: total_commits = sum(activity.commits_by_hour)
\* = sum(activity.commits_by_dow) = sum of code_velocity.commits_by_week
\* = weekday_commits + weekend_commits = sum of repo_rankings[i].commits,
\* and weekday_commits = sum(commits_by_dow[0..4]).
C26_EveryViewCountsEachCommitOnce ==
    (Returned /\ "raised" \notin DOMAIN result) =>
        /\ result.total_commits = SumSeq(result.activity.commits_by_hour)
        /\ result.total_commits = SumSeq(result.activity.commits_by_dow)
        /\ result.total_commits = SumSeq(Values(result.code_velocity.commits_by_week))
        /\ result.total_commits = result.workday_split.weekday_commits
                                     + result.workday_split.weekend_commits
        /\ result.total_commits =
              SumSeq([i \in DOMAIN result.repo_rankings |-> result.repo_rankings[i].commits])
        /\ result.workday_split.weekday_commits =
              SumSeq(SubSeq(result.activity.commits_by_dow, 1, 5))

\* a Friday commit, a commit late on Friday in UTC that is Saturday in the
\* local zone, and a Sunday commit, in two repos
C26_Witness ==
    /\ Returned
    /\ Len(repos) = 2
    /\ result.total_commits = 3
    /\ result.workday_split.weekday_commits = 1
    /\ result.workday_split.weekend_commits = 2
    /\ result.activity.commits_by_dow = <<0, 0, 0, 0, 1, 1, 1>>
    /\ Len(result.code_velocity.commits_by_week) = 1

(***************************************************************************)
(* compute_languages and compute_language_evolution on the same list, with *)
(* more than 8 languages, equal totals and months out of order.            *)
(***************************************************************************)
MaxEvoChanges == 10

\* the extension of the file change at each place of the list
EvoExts ==
    <<".py", ".go", ".yml", ".yaml", ".rs", ".js", ".ts", ".c", ".md", ".sh",
      ".proto", ".lua">>

\* mid January and mid February 2025
EvoStamps == {Naive(16 * 24 + 10), Naive(47 * 24 + 10)}

InitEvolution ==
    /\ pc = "start"
    /\ now = 58 * 24
    /\ localOff = 2
    /\ \E n \in 0..MaxEvoChanges :
       \E added \in [1..n -> {1, 2}], ts \in [1..n -> EvoStamps] :
          /\ \A i \in 3..n : ts[i] = Naive(47 * 24 + 10)
          /\ all_file_changes =
                [i \in 1..n |-> FileChange("h", ts[i], <<"f">>, EvoExts[i], added[i], 0)]
    /\ result = <<>>
    /\ repos = <<>> /\ all_commits = <<>>
    /\ weeks = 0 /\ top_n = 0 /\ acc = <<>>

RunEvolution ==
    /\ pc = "start"
    /\ pc' = "done"
    /\ result' = [languages |-> compute_languages(all_file_changes),
                  evolution |-> compute_language_evolution(all_file_changes)]
    /\ UNCHANGED inputs

NextEvolution == RunEvolution

SpecEvolution == InitEvolution /\ [][NextEvolution]_vars

\* the first min(8, number of languages) keys of compute_languages
LanguagesPrefix ==
    SubSeq(Keys(result.languages), 1, Min(8, Len(result.languages)))

\* the grand total of a language
EvoTotal(lang) == Get(result.languages, lang)

\* the file changes are listed by month, oldest first
MonthsAscending ==
    \A i, j \in DOMAIN all_file_changes :
        i < j => ~KeyLess(MonthKey(all_file_changes[j].timestamp),
                          MonthKey(all_file_changes[i].timestamp))

\* no two languages have the same total
TotalsDistinct ==
    \A i, j \in DOMAIN result.languages :
        i # j => result.languages[i][2] # result.languages[j][2]

\* C27 as stated: top_languages is the first min(8, number of languages)
\* keys of compute_languages on the same list, in the same order, equal
\* totals included.
C27_Original_TopLanguagesIsPrefix ==
    pc = "done" => result.evolution.top_languages = LanguagesPrefix

\* C27: top_languages holds min(8, number of languages) distinct languages
\* in non-increasing order of total, none with a smaller total than a
\* language left out; it is the first keys of compute_languages, in the
\* same order, whenever no two totals are equal or the list is in ascending
\* month order.
C27_TopLanguagesByTotal ==
    pc = "done" =>
        LET top == result.evolution.top_languages
        IN  /\ Len(top) = Min(8, Len(result.languages))
            /\ \A i, j \in DOMAIN top : i < j =>
                  /\ top[i] # top[j]
                  /\ EvoTotal(top[i]) >= EvoTotal(top[j])
            /\ \A i \in DOMAIN top : HasKey(result.languages, top[i])
            /\ \A k \in DOMAIN result.languages :
                  result.languages[k][1] \notin Range(top) =>
                     \A i \in DOMAIN top : EvoTotal(top[i]) >= result.languages[k][2]
            /\ (TotalsDistinct \/ MonthsAscending) => top = LanguagesPrefix

\* nine languages listed oldest month first: the ninth is cut, ties and all
C27_Witness ==
    /\ pc = "done"
    /\ Len(result.languages) = 9
    /\ MonthsAscending
    /\ ~TotalsDistinct
    /\ MonthKey(all_file_changes[1].timestamp) # MonthKey(all_file_changes[2].timestamp)
    /\ Len(result.evolution.top_languages) = 8
    /\ result.evolution.top_languages = LanguagesPrefix

(***************************************************************************)
(* build_analytics on the same RepoInfo records in two orders: the list    *)
(* that the scan fills in completion order, and the same list reversed.    *)
(***************************************************************************)
MaxOrderRecords == 2

\* commits on two dates and file changes of equal size in two languages
OrderRecords ==
    {Commit("c1", Naive((today - 1) * 24 + 10), 1, 0),
     Commit("c2", Naive((today - 2) * 24 + 9), 2, 3),
     FileChange("c1", Naive((today - 1) * 24 + 10), <<"f">>, ".py", 5, 0),
     FileChange("c2", Naive((today - 2) * 24 + 9), <<"g">>, ".go", 2, 3)}

Reversed(s) == [i \in DOMAIN s |-> s[Len(s) + 1 - i]]

InitOrder ==
    /\ pc = "first"
    /\ now = 298
    /\ localOff = 2
    /\ \E k \in 0..MaxOrderRecords :
       \E rl \in [1..k -> OrderRecords], cut \in 0..k :
          /\ \A a, b \in 1..k : a # b => rl[a] # rl[b]
          /\ repos = <<BuildRepo(1, <<"r">>, SubSeq(rl, 1, cut)),
                       BuildRepo(2, <<"q">>, SubSeq(rl, cut + 1, k))>>
    /\ acc = [first |-> <<>>]
    /\ result = <<>>
    /\ all_commits = <<>> /\ all_file_changes = <<>>
    /\ weeks = DefaultWeeks /\ top_n = DefaultTopN

\* the workers finish in one order
OrderBuildFirst ==
    /\ pc = "first"
    /\ pc' = "second"
    /\ acc' = [acc EXCEPT !.first = build_analytics(repos)]
    /\ UNCHANGED <<now, localOff, repos, all_commits, all_file_changes, weeks,
                   top_n, result>>

\* the workers finish in the opposite order
OrderBuildSecond ==
    /\ pc = "second"
    /\ pc' = "done"
    /\ result' = build_analytics(Reversed(repos))
    /\ UNCHANGED inputs

NextOrder == OrderBuildFirst \/ OrderBuildSecond

SpecOrder == InitOrder /\ [][NextOrder]_vars

DistinctKeys(keys) == \A i, j \in DOMAIN keys : i # j => keys[i] # keys[j]

C29_OneRepoInfoPerScannablePath ==
    ScanOver =>
        /\ \A i \in DOMAIN acc.repo_paths :
              "raised" \notin DOMAIN scan_repo(acc.disk[i]) =>
                 Cardinality({k \in DOMAIN repos : repos[k].path = acc.repo_paths[i]}) = 1
        /\ \A k, l \in DOMAIN repos : k # l => repos[k].path # repos[l].path

(***************************************************************************)
(* The TUI (tui.py): the widgets mounted on the screen, the refresh key    *)
(* and the background scans.  acc.mounted counts the mounted widgets of    *)
(* each id, acc.workers holds the state of every run_scan worker started:  *)
(* "scanning", "ready" (the scan is over and the call on the app thread    *)
(* is pending) or "done".  pc is "compose", "running" or, after an error   *)
(* escaped an action or a callback, "crashed".  What mounting a widget     *)
(* under an id that is already mounted does is the widget library's        *)
(* business, not this code's: acc.duplicate_ids is "raise" when the        *)
(* library refuses with DuplicateIds and "keep" when it mounts the widget. *)
(***************************************************************************)
MaxRefresh == 3

\* the ids action_refresh removes and _render_dashboard mounts
PanelIds ==
    {"banner", "overview", "heatmap", "languages", "repos", "activity",
     "velocity", "lang-evolution", "focus", "workday", "hotspots"}

WidgetIds == PanelIds \cup {"loading-container"}

\* self.query_one(wid).remove() inside try / except: one widget of the id
\* goes, if there is one
RemoveOne(mounted, ids) ==
    [w \in WidgetIds |->
        IF w \in ids /\ mounted[w] > 0 THEN mounted[w] - 1 ELSE mounted[w]]

\* the workers that have not returned
InProgress(workers) == {i \in DOMAIN workers : workers[i] # "done"}

InitTui ==
    /\ pc = "compose"
    /\ now = 298
    /\ localOff = 2
    /\ repos = <<>>
    /\ result = <<>>
    /\ all_commits = <<>> /\ all_file_changes = <<>>
    /\ weeks = DefaultWeeks /\ top_n = DefaultTopN
    /\ \E d \in {"raise", "keep"} :
          acc = [duplicate_ids |-> d,
                 mounted |-> [w \in WidgetIds |-> 0],
                 workers |-> <<>>,
                 refreshes |-> 0]

\* compose and on_mount: the loading container, then self.run_scan()
TuiOnMount ==
    /\ pc = "compose"
    /\ pc' = "running"
    /\ acc' = [acc EXCEPT !.mounted["loading-container"] = 1,
                          !.workers = <<"scanning">>]
    /\ UNCHANGED <<now, localOff, repos, all_commits, all_file_changes, weeks,
                   top_n, result>>

\* action_refresh: remove the panels, mount a loading container, run_scan()
TuiRefresh ==
    /\ pc = "running"
    /\ acc.refreshes < MaxRefresh
    /\ LET cleared == RemoveOne(acc.mounted, PanelIds)
       IN  IF cleared["loading-container"] > 0 /\ acc.duplicate_ids = "raise"
           THEN /\ pc' = "crashed"
                /\ acc' = [acc EXCEPT !.mounted = cleared, !.refreshes = @ + 1]
           ELSE /\ pc' = "running"
                /\ acc' = [acc EXCEPT
                              !.mounted = [cleared EXCEPT !["loading-container"] = @ + 1],
                              !.workers = Append(@, "scanning"),
                              !.refreshes = @ + 1]
    /\ UNCHANGED <<now, localOff, repos, all_commits, all_file_changes, weeks,
                   top_n, result>>

\* run_scan up to build_analytics; the call of _render_dashboard is pending
TuiScanDone ==
    /\ \E i \in DOMAIN acc.workers :
          /\ acc.workers[i] = "scanning"
          /\ acc' = [acc EXCEPT !.workers[i] = "ready"]
    /\ UNCHANGED <<pc, now, localOff, repos, all_commits, all_file_changes,
                   weeks, top_n, result>>

\* run_scan when find_repos found nothing: _show_no_repos, and return
TuiShowNoRepos ==
    /\ \E i \in DOMAIN acc.workers :
          /\ acc.workers[i] = "scanning"
          /\ acc' = [acc EXCEPT !.workers[i] = "done"]
    /\ UNCHANGED <<pc, now, localOff, repos, all_commits, all_file_changes,
                   weeks, top_n, result>>

\* _render_dashboard on the app thread: remove the loading container and
\* mount the eleven panels
TuiRender ==
    /\ pc = "running"
    /\ \E i \in DOMAIN acc.workers :
          /\ acc.workers[i] = "ready"
          /\ LET cleared == RemoveOne(acc.mounted, {"loading-container"})
                 clash   == \E w \in PanelIds : cleared[w] > 0
             IN  IF clash /\ acc.duplicate_ids = "raise"
                 THEN /\ pc' = "crashed"
                      /\ acc' = [acc EXCEPT !.mounted = cleared, !.workers[i] = "done"]
                 ELSE /\ pc' = "running"
                      /\ acc' = [acc EXCEPT
                                    !.mounted = [w \in WidgetIds |->
                                                    IF w \in PanelIds THEN cleared[w] + 1
                                                    ELSE cleared[w]],
                                    !.workers[i] = "done"]
    /\ UNCHANGED <<now, localOff, repos, all_commits, all_file_changes, weeks,
                   top_n, result>>

NextTui ==
    \/ TuiOnMount
    \/ TuiRefresh
    \/ TuiScanDone
    \/ TuiShowNoRepos
    \/ TuiRender

SpecTui == InitTui /\ [][NextTui]_vars

====
